---- MODULE Spec2Model ----
(***************************************************************************)
(* Portfolio web service (src/app.py, src/main.py): the upstream           *)
(* fetch-with-retry-and-cache (_fetch_github_repos) and the contact        *)
(* submission pipeline (api_contact), as state machines.                   *)
(***************************************************************************)
EXTENDS Integers, Sequences, FiniteSets, TLC

(***************************************************************************)
(* Bounds of the model.                                                    *)
(***************************************************************************)
\* number of calls of _fetch_github_repos in one run of CacheSpec
MaxCalls == 3
\* number of calls of _fetch_github_repos in one run of RetrySpec
MaxRetryCalls == 2
\* number of records in an upstream listing
MaxRepos == 1

(***************************************************************************)
(* Program constants.                                                      *)
(***************************************************************************)
\* cache.set(cache_key, data, timeout=300)
CacheTTL == 300
\* max_attempts = 3
max_attempts == 3
\* backoff = 1.0
InitialBackoff == 1

(***************************************************************************)
(* Values.                                                                 *)
(***************************************************************************)
\* Python's None; also what resp.json() gives for the JSON body `null`
PyNone == [t |-> "null"]
\* a JSON number: decodable, not iterable
JNum == [t |-> "num"]
\* a JSON object: decodable, iterates over its keys (strings, no dict among them)
JObj == [t |-> "obj"]
\* a JSON array of repository records
JList(items) == [t |-> "list", items |-> items]

\* the two programs that define _fetch_github_repos
Variants == {"app", "main"}
Users == {"u1", "u2"}

\* One element of an upstream listing. isdict: isinstance(r, dict);
\* hasTopics: "topics" in r; name: r.get("name") ("" when missing or empty).
RepoKinds ==
    { [isdict |-> TRUE,  name |-> "a", hasTopics |-> FALSE, topics |-> <<>>],
      [isdict |-> TRUE,  name |-> "",  hasTopics |-> FALSE, topics |-> <<>>],
      [isdict |-> TRUE,  name |-> "b", hasTopics |-> TRUE,  topics |-> <<"t0">>],
      [isdict |-> FALSE, name |-> "",  hasTopics |-> FALSE, topics |-> <<>>] }

SeqsUpTo(S, n) == UNION { [1..k -> S] : k \in 0..n }

\* bodies of an HTTP 200 listing response; "undecodable" is a body resp.json() rejects
Bodies == {[t |-> "undecodable"], PyNone, JNum, JObj}
            \cup { JList(s) : s \in SeqsUpTo(RepoKinds, MaxRepos) }

Statuses == {200, 204, 301, 403, 404, 429, 500, 503}

\* what one primary requests.get can do: a timeout, another transport fault,
\* or an HTTP response
Timeout == [k |-> "timeout"]
Fault == [k |-> "fault"]
Http(s) == [k |-> "http", status |-> s]
Http200(b) == [k |-> "http", status |-> 200, body |-> b]

Outcomes ==
    { Timeout, Fault }
      \cup { Http(s) : s \in Statuses \ {200} }
      \cup { Http200(b) : b \in Bodies }

\* the outcomes drawn in CacheSpec: a failure that is retried, one that is not,
\* and the listings that differ in what the cache keeps
CacheOutcomes ==
    { Timeout, Http(429), Http200(PyNone), Http200(JList(<<>>)) }
      \cup { Http200(JList(<<r>>)) : r \in {k \in RepoKinds : k.name = "a"} }

\* what one topics request can do: 200 with a names list, or any failure
\* JSON values under "names" / "topics" of a topics body: the key is absent, or
\* holds a string, or a list whose elements are strings, numbers or nulls
Absent == [t |-> "absent"]
JStr == [t |-> "str"]
TStr(s) == [t |-> "str", v |-> s]
TNum(s) == [t |-> "num", v |-> s]
TNull == [t |-> "null", v |-> ""]
TObj(names, topics) == [t |-> "obj", names |-> names, topics |-> topics]

TopicBodies ==
    { [t |-> "undecodable"], PyNone, JNum, JList(<<>>), JList(<<TStr("t1")>>),
      TObj(Absent, Absent),
      TObj(JStr, Absent),
      TObj(JList(<<>>), JList(<<TStr("t2")>>)),
      TObj(Absent, JList(<<TStr("t2")>>)),
      TObj(JList(<<TStr("t1"), TNull, TNum("7")>>), Absent) }

\* the usual answer: 200 {"names": ["t1"]}
TopicsOk == Http200(TObj(JList(<<TStr("t1")>>), Absent))

\* what one topics request can do
AllTopicOutcomes ==
    { Timeout, Fault, Http(404), Http(403), Http(500), TopicsOk }
      \cup { Http200(b) : b \in TopicBodies }

\* the topic outcomes drawn where the listing is the subject: the usual answer
\* and a failure
TopicOutcomes == { TopicsOk, Timeout }

\* seconds between the previous event and the arrival of the next call
Gaps == {1, CacheTTL - 1}

VARIABLES
    variant,      \* which program runs: "app" (src/app.py) or "main" (src/main.py)
    json_exc,     \* TRUE: the installed requests raises a RequestException subclass
                  \* from resp.json(); FALSE: it raises a plain ValueError
    now,          \* time.time(), in seconds
    cache,        \* the process-wide SimpleCache: key -> [val, expires] or absent
    pc,           \* position of the running call: idle, request, sleep, topics, done
    username,     \* the running call's argument
    attempt,      \* loop variable of the retry loop
    backoff,      \* seconds of the next backoff sleep
    last_error,   \* last_error
    data,         \* decoded listing being enriched
    idx,          \* position of the enrichment loop in data
    outcomes,     \* the primary responses received in this call, in order
    sleeps,       \* the backoff sleeps made in this call, in order
    topic_reqs,   \* number of topic requests issued in this call
    topic_log,    \* what each of them got, in order
    ret,          \* what the call gave its caller
    calls,        \* calls made so far
    hit,          \* this call was answered from the cache
    cache0,       \* the cache as it was when this call began
    started,      \* time at which this call began
    oks,          \* per user: data and cache-write time of each call that returned
                  \* data obtained from an HTTP 200
    oks0,         \* oks of this call's user as it was when this call began
    last_end,     \* per user: how the last completed call ended
    prev_end      \* how the previous call for this call's user ended

fetch_vars == << variant, json_exc, now, cache, pc, username, attempt, backoff,
                 last_error, data, idx, outcomes, sleeps, topic_reqs, topic_log,
                 ret, calls, hit, cache0, started, oks, oks0, last_end, prev_end >>

VARIABLES
    env,          \* the environment variables the contact route reads: which
                  \* CAPTCHA secrets are set, CAPTCHA_REQUIRE_ON_DEV, RL_CONTACT
    limiter,      \* Flask-Limiter's storage: client key -> window -> [count, expires]
    bypass,       \* the contact_bypass:* entries of the cache: key -> [val, expires]
    rows,         \* the contact-message table
    rows0,        \* the table when the last request arrived
    nreq,         \* requests to POST /api/contact so far
    req,          \* the last request
    resp,         \* the response it got
    admitted,     \* the limiter let it reach api_contact
    consulted,    \* the CAPTCHA providers contacted while handling it, in order
    verdict,      \* what the contacted provider answered
    mailed,       \* the email notification: "none", "sent" or "failed"
    bypass_log    \* the submissions that reached the bypass block so far, each
                  \* with what the block decided

contact_vars == << env, limiter, bypass, rows, rows0, nreq, req, resp, admitted,
                   consulted, verdict, mailed,
                   bypass_log >>

VARIABLES
    fetched,      \* what _fetch_github_repos gave the search or feed handler
    view          \* the last answer of GET /api/search or GET /feed.xml

view_vars == << fetched, view >>

VARIABLES
    fth,          \* calls of _fetch_github_repos running at once, one per server
                  \* thread: thread -> its locals and position
    cwrites,      \* the threads that wrote the repository cache, in order
    cth           \* bypass-mode submissions running at once: thread -> its
                  \* locals and position in the counter block

conc_vars == << fth, cwrites, cth >>

\* the variables of one sequential call, which concurrent calls do not share
call_vars == << variant, json_exc, pc, username, attempt, backoff, last_error, data,
                idx, outcomes, sleeps, topic_reqs, topic_log, ret, calls, hit,
                cache0, started, oks, oks0, last_end, prev_end >>

vars == << fetch_vars, contact_vars, view_vars, conc_vars >>

(***************************************************************************)
(* The cache (flask_caching SimpleCache as the code uses it).              *)
(***************************************************************************)
NoEntry == [t |-> "absent"]

\* cache_key = f"github_repos:{username}"
CacheKey(u) == u

\* (an entry still served at the instant it expires)
CacheGet_Inclusive(c, key, t) ==
    IF c[key] # NoEntry /\ c[key].expires >= t THEN c[key].val ELSE PyNone

\* cache.get(key): the stored value while it has not expired, else None
CacheGet(c, key, t) ==
    IF c[key] # NoEntry /\ c[key].expires > t THEN c[key].val ELSE PyNone

\* (cache.add: a live entry is kept)
CacheSet_KeepsLive(c, key, val, t, ttl) ==
    IF c[key] # NoEntry /\ c[key].expires > t
    THEN c
    ELSE [c EXCEPT ![key] = [val |-> val, expires |-> t + ttl]]

\* cache.set(key, val, timeout=ttl)
CacheSet(c, key, val, t, ttl) ==
    [c EXCEPT ![key] = [val |-> val, expires |-> t + ttl]]

\* a truthiness test, `if cached:`, in place of the comparison with None
IsHit_Truthy(cached) == cached # PyNone /\ cached # JList(<<>>)

\* `if cached is not None`
IsHit(cached) == cached # PyNone

(***************************************************************************)
(* Classification of one primary response.                                 *)
(***************************************************************************)
\* `if status in (403, 429)`
IsRateLimited(status) == status \in {403, 429}

\* a server-error range that starts at the client errors
IsServerError_From400(status) == 400 <= status /\ status < 600

\* `if 500 <= status < 600`
IsServerError(status) == 500 <= status /\ status < 600

Err(type, status) == [type |-> type, status |-> status]

\* last_error for a non-200 status
StatusError(status) ==
    IF IsRateLimited(status) THEN Err("rate_limited", status)
    ELSE IF IsServerError(status) THEN Err("upstream_error", status)
    ELSE Err("bad_status", status)

\* a loop that also retries rate-limit responses
Retries_RateLimited(e, att) ==
    /\ e.type \in {"rate_limited", "upstream_error", "timeout", "request_exception"}
    /\ att < max_attempts

\* a loop that gives up on the first transport failure
Retries_StatusOnly(e, att) ==
    /\ e.type \in {"upstream_error"}
    /\ att < max_attempts

\* a ceiling tested one pass late
Retries_OneMore(e, att) ==
    /\ e.type \in {"upstream_error", "timeout", "request_exception"}
    /\ att <= max_attempts

\* whether the loop goes on after this failure: 5xx, Timeout and
\* RequestException `continue` while attempt < max_attempts; the rest `break`
Retries(e, att) ==
    /\ e.type \in {"upstream_error", "timeout", "request_exception"}
    /\ att < max_attempts

\* a backoff that never grows
NextBackoff_Same(b) == b

\* `backoff *= 2`
NextBackoff(b) == b * 2

Returned(d, e) == [kind |-> "return", data |-> d, error |-> e]
Raised(exc) == [kind |-> "raise", exc |-> exc]
NoRet == [kind |-> "none"]

\* `for r in data` raises TypeError for None and for a number
Iterable(body) == body.t \in {"list", "obj"}

Items(body) == IF body.t = "list" THEN body.items ELSE <<>>

\* main.py's loop body asks for topics of r: a dict without "topics" and with a name
NeedsTopicRequest(r) == r.isdict /\ ~r.hasTopics /\ r.name # ""

\* Python truth of a value held under a key: absent (None) and [] are false
Truthy(v) == v # Absent /\ v # JList(<<>>)

\* [str(x) for x in topics if isinstance(x, (str, int, float))]
RECURSIVE Normalize(_)
Normalize(s) ==
    IF s = <<>> THEN <<>>
    ELSE IF Head(s).t \in {"str", "num"}
         THEN << Head(s).v >> \o Normalize(Tail(s))
         ELSE Normalize(Tail(s))

\* _fetch_topics: the names of a 200 answer that is an object holding a list
\* under "names" or else "topics"; [] for anything else, exceptions included
\* (`t_resp.json() or {}`, `.get` on a value that is not a dict)
FetchTopics(o) ==
    IF o.k # "http" THEN <<>>
    ELSE IF o.status # 200 THEN <<>>
    ELSE IF o.body.t = "undecodable" THEN <<>>
    ELSE IF o.body = PyNone \/ o.body = JList(<<>>) THEN <<>>
    ELSE IF o.body.t # "obj" THEN <<>>
    ELSE LET topics == IF Truthy(o.body.names) THEN o.body.names
                       ELSE IF Truthy(o.body.topics) THEN o.body.topics
                       ELSE JList(<<>>)
         IN IF topics.t = "list" THEN Normalize(topics.items) ELSE <<>>

\* (an empty answer leaves the record as it came)
Enrich_SkipsEmpty(r, names) ==
    IF r.isdict /\ ~r.hasTopics /\ names # <<>>
    THEN [r EXCEPT !.hasTopics = TRUE, !.topics = names]
    ELSE r

\* r after the loop body, given what _fetch_topics returned
Enrich(r, names) ==
    IF r.isdict /\ ~r.hasTopics
    THEN [r EXCEPT !.hasTopics = TRUE,
                   !.topics = IF r.name = "" THEN <<>> ELSE names]
    ELSE r

(***************************************************************************)
(* _fetch_github_repos, step by step.                                      *)
(***************************************************************************)
EndKind(r) ==
    IF r.kind = "raise" THEN "raise"
    ELSE IF r.error # PyNone THEN "error"
    ELSE IF r.data # PyNone THEN "ok"
    ELSE "nothing"

\* the call ends giving r to its caller
Finish(r) ==
    /\ pc' = "done"
    /\ ret' = r
    /\ last_end' = [last_end EXCEPT ![username] = EndKind(r)]

\* the call begins, gap seconds after the previous event: cache lookup
Begin(u, gap, limit) ==
    /\ UNCHANGED contact_vars
    /\ UNCHANGED view_vars
    /\ UNCHANGED conc_vars
    /\ pc \in {"idle", "done"}
    /\ calls < limit
    /\ calls' = calls + 1
    /\ now' = now + gap
    /\ username' = u
    /\ started' = now'
    /\ cache0' = cache
    /\ prev_end' = last_end[u]
    /\ outcomes' = <<>>
    /\ sleeps' = <<>>
    /\ topic_reqs' = 0
    /\ topic_log' = <<>>
    /\ data' = PyNone
    /\ idx' = 0
    /\ attempt' = 1
    /\ backoff' = InitialBackoff
    /\ last_error' = PyNone
    /\ LET cached == CacheGet(cache, CacheKey(u), now') IN
         IF IsHit(cached)
         THEN /\ hit' = TRUE
              /\ pc' = "done"
              /\ ret' = Returned(cached, PyNone)
              /\ last_end' = [last_end EXCEPT ![u] = "ok"]
         ELSE /\ hit' = FALSE
              /\ pc' = "request"
              /\ ret' = NoRet
              /\ UNCHANGED last_end
    /\ oks0' = oks[u]
    /\ UNCHANGED << variant, json_exc, cache, oks >>

\* a failure path that keeps the first error it saw
Fail_KeepsFirst(e) ==
    /\ last_error' = IF last_error = PyNone THEN e ELSE last_error
    /\ IF Retries(e, attempt)
       THEN /\ pc' = "sleep"
            /\ UNCHANGED << ret, last_end >>
       ELSE Finish(Returned(PyNone, last_error'))
    /\ UNCHANGED << cache, data, idx, oks >>

\* a failure path that stores its outcome under the cache key
Fail_CachesError(e) ==
    /\ last_error' = e
    /\ IF Retries(e, attempt)
       THEN /\ pc' = "sleep"
            /\ UNCHANGED << ret, last_end, cache >>
       ELSE /\ Finish(Returned(PyNone, e))
            /\ cache' = CacheSet(cache, CacheKey(username), JList(<<>>), now, CacheTTL)
    /\ UNCHANGED << data, idx, oks >>

\* a failed attempt: retry after a sleep, or give up with the last error
Fail(e) ==
    /\ last_error' = e
    /\ IF Retries(e, attempt)
       THEN /\ pc' = "sleep"
            /\ UNCHANGED << ret, last_end >>
       ELSE Finish(Returned(PyNone, e))
    /\ UNCHANGED << cache, data, idx, oks >>

\* the listing was decoded: app.py stores it; main.py starts the enrichment loop
Decoded(body) ==
    IF variant = "app"
    THEN /\ cache' = CacheSet(cache, CacheKey(username), body, now, CacheTTL)
         /\ Finish(Returned(body, PyNone))
         /\ oks' = IF body # PyNone
                   THEN [oks EXCEPT ![username] = @ \cup {[data |-> body, at |-> now]}]
                   ELSE oks
         /\ UNCHANGED << last_error, data, idx >>
    ELSE IF ~Iterable(body)
    THEN /\ Finish(Raised("TypeError"))
         /\ UNCHANGED << cache, last_error, data, idx, oks >>
    ELSE /\ data' = body
         /\ idx' = 1
         /\ pc' = "topics"
         /\ UNCHANGED << cache, last_error, ret, last_end, oks >>

\* one pass of the retry loop: requests.get and the handling of what it gave
Attempt(o) ==
    /\ UNCHANGED contact_vars
    /\ UNCHANGED view_vars
    /\ UNCHANGED conc_vars
    /\ pc = "request"
    /\ outcomes' = Append(outcomes, o)
    /\ IF o.k = "timeout" THEN Fail(Err("timeout", 504))
       ELSE IF o.k = "fault" THEN Fail(Err("request_exception", 502))
       ELSE IF o.status # 200 THEN Fail(StatusError(o.status))
       ELSE IF o.body.t = "undecodable"
            THEN IF json_exc
                 THEN Fail(Err("request_exception", 502))
                 ELSE /\ Finish(Raised("ValueError"))
                      /\ UNCHANGED << cache, last_error, data, idx, oks >>
       ELSE Decoded(o.body)
    /\ UNCHANGED << variant, json_exc, now, username, attempt, backoff, sleeps,
                    topic_reqs, topic_log, calls, hit, cache0, started, oks0,
                    prev_end >>

\* time.sleep(backoff); backoff *= 2; continue
Sleep ==
    /\ UNCHANGED contact_vars
    /\ UNCHANGED view_vars
    /\ UNCHANGED conc_vars
    /\ pc = "sleep"
    /\ sleeps' = Append(sleeps, backoff)
    /\ now' = now + backoff
    /\ backoff' = NextBackoff(backoff)
    /\ attempt' = attempt + 1
    /\ pc' = "request"
    /\ UNCHANGED << variant, json_exc, cache, username, last_error, data, idx,
                    outcomes, topic_reqs, topic_log, ret, calls, hit, cache0, started,
                    oks, oks0, last_end, prev_end >>

\* one pass of main.py's enrichment loop over data[idx]
Topic(o) ==
    /\ UNCHANGED contact_vars
    /\ UNCHANGED view_vars
    /\ UNCHANGED conc_vars
    /\ pc = "topics"
    /\ idx <= Len(Items(data))
    /\ LET r == Items(data)[idx] IN
         /\ o = TopicsOk \/ NeedsTopicRequest(r)  \* o is read only when a request is made
         /\ topic_reqs' = topic_reqs + (IF NeedsTopicRequest(r) THEN 1 ELSE 0)
         /\ topic_log' = IF NeedsTopicRequest(r) THEN Append(topic_log, o) ELSE topic_log
         /\ data' = JList([Items(data) EXCEPT ![idx] = Enrich(r, FetchTopics(o))])
    /\ idx' = idx + 1
    /\ UNCHANGED << variant, json_exc, now, cache, pc, username, attempt, backoff,
                    last_error, outcomes, sleeps, ret, calls, hit, cache0, started,
                    oks, oks0, last_end, prev_end >>

\* after the loop: cache.set(cache_key, data, timeout=300); return data, None
Store ==
    /\ UNCHANGED contact_vars
    /\ UNCHANGED view_vars
    /\ UNCHANGED conc_vars
    /\ pc = "topics"
    /\ idx > Len(Items(data))
    /\ cache' = CacheSet(cache, CacheKey(username), data, now, CacheTTL)
    /\ Finish(Returned(data, PyNone))
    /\ oks' = [oks EXCEPT ![username] = @ \cup {[data |-> data, at |-> now]}]
    /\ UNCHANGED << variant, json_exc, now, username, attempt, backoff, last_error,
                    data, idx, outcomes, sleeps, topic_reqs, topic_log, calls, hit, cache0,
                    started, oks0, prev_end >>

(***************************************************************************)
(* POST /api/contact: inputs.                                              *)
(***************************************************************************)
\* Text fields are sequences of characters.
Chars(n, c) == [i \in 1..n |-> c]

\* str.strip(), for the one whitespace character the inputs use
RECURSIVE LStrip(_)
LStrip(s) == IF s # <<>> /\ Head(s) = " " THEN LStrip(Tail(s)) ELSE s

RECURSIVE RStrip(_)
RStrip(s) == IF s # <<>> /\ s[Len(s)] = " " THEN RStrip(SubSeq(s, 1, Len(s) - 1)) ELSE s

Strip(s) == RStrip(LStrip(s))

Letters == {"a", "b", "c", "o", "x"}
Digits == {"1"}

\* email_regex.match(email): ^[A-Z0-9._%+-]+@[A-Z0-9.-]+\.[A-Z]{2,}$, IGNORECASE
EmailMatches(s) ==
    \E i, j \in 1..Len(s) :
        /\ s[i] = "@"
        /\ s[j] = "."
        /\ 2 <= i
        /\ i + 2 <= j
        /\ j + 2 <= Len(s)
        /\ \A k \in 1..(i - 1) : s[k] \in Letters \cup Digits \cup {".", "_", "%", "+", "-"}
        /\ \A k \in (i + 1)..(j - 1) : s[k] \in Letters \cup Digits \cup {".", "-"}
        /\ \A k \in (j + 1)..Len(s) : s[k] \in Letters

Providers == {"turnstile", "hcaptcha", "recaptcha"}

\* CANONICAL_HOST's default, a development host, another public host, no Host
Hosts == {"yusufsiddiqui.dev", "localhost", "127.0.0.1", "other.example", ""}

\* the client: remote address and User-Agent
Clients == {"c1", "c2"}

\* A request: the client, the Host header, the form fields, and the set of
\* providers whose token field the form carries non-blank.
Request(c, h, w, n, e, m, tk) ==
    [client |-> c, host |-> h, website |-> w, name |-> n, email |-> e,
     message |-> m, tokens |-> tk]

GoodName == <<"a", "b">>
GoodEmail == <<"a", "@", "b", ".", "c", "o">>
\* CONTACT_MIN_MESSAGE_LEN, default "20"
min_message_len == 20
GoodMessage == Chars(min_message_len, "x")

\* what a provider's siteverify call can give: the call faults or times out,
\* a non-OK HTTP response, or a JSON answer; score is in tenths, -1 when absent
\* (an action of "None" is a JSON answer without the key, "" an empty tag)
VFault == [k |-> "fault", success |-> FALSE, score |-> -1, action |-> "None"]
VHttpError == [k |-> "http_error", success |-> FALSE, score |-> -1, action |-> "None"]
VJson(ok, score, action) == [k |-> "json", success |-> ok, score |-> score, action |-> action]

Verdicts(p) ==
    IF p = "recaptcha"
    THEN {VFault, VHttpError, VJson(FALSE, -1, "None")}
           \cup { VJson(TRUE, sc, "contact") : sc \in {-1, 0, 4, 5} }
           \cup { VJson(TRUE, 5, a) : a \in {"None", "", "login"} }
           \cup { VJson(TRUE, 4, "login") }
    ELSE {VFault, VHttpError, VJson(FALSE, -1, "None"), VJson(TRUE, -1, "None")}

NoVerdict == [k |-> "none", success |-> FALSE, score |-> -1, action |-> "None"]

(***************************************************************************)
(* Responses.                                                              *)
(***************************************************************************)
NoDetails == [name |-> "-", email |-> "-", message |-> "-"]

\* status, the JSON body's keys, and the values the properties read
Response(status, keys, ok, error, reason, details, id, created_at) ==
    [status |-> status, keys |-> keys, ok |-> ok, error |-> error,
     reason |-> reason, details |-> details, id |-> id, created_at |-> created_at]

NoResp == Response(0, {}, FALSE, "-", "-", NoDetails, 0, -1)

\* handle_429: the limiter's rejection, on an /api/ path
Limited429 ==
    Response(429, {"ok", "error", "message", "path", "timestamp"}, FALSE,
             "rate_limited", "-", NoDetails, 0, -1)

\* return jsonify({"ok": True}), 200
Honeypot200 == Response(200, {"ok"}, TRUE, "-", "-", NoDetails, 0, -1)

Validation400(details) ==
    Response(400, {"ok", "error", "details"}, FALSE, "validation_error", "-",
             details, 0, -1)

Bypass429(error, reason) ==
    Response(429, {"ok", "error", "reason"}, FALSE, error, reason, NoDetails, 0, -1)

Captcha400(error) ==
    Response(400, {"ok", "error"}, FALSE, error, "-", NoDetails, 0, -1)

\* handle_500, on an /api/ path
Server500 ==
    Response(500, {"ok", "error", "message", "path", "timestamp"}, FALSE,
             "server_error", "-", NoDetails, 0, -1)

Created201(id, ts) ==
    Response(201, {"ok", "id", "created_at"}, TRUE, "-", "-", NoDetails, id, ts)

(***************************************************************************)
(* Flask-Limiter on the route: "3 per minute; 10 per hour; 30 per day",     *)
(* strategy fixed-window-elastic-expiry, keyed by _rate_limit_key.         *)
(***************************************************************************)
MinuteQuota == 3
HourQuota == 10
DayQuota == 30

\* os.getenv("RL_CONTACT", ...): the default quotas, and deployments that set
\* "1 per minute; 1 per hour; 1 per day" and "1 per minute; 1 per hour; 2 per day"
DefaultQuotas == << MinuteQuota, HourQuota, DayQuota >>
Quotas == { DefaultQuotas, << 1, 1, 1 >>, << 1, 1, 2 >> }

\* the windows, smallest first, with the quotas q
Limits(q) ==
    << [len |-> 60, quota |-> q[1]],
       [len |-> 3600, quota |-> q[2]],
       [len |-> 86400, quota |-> q[3]] >>

NoCount == [count |-> 0, expires |-> 0]

\* _rate_limit_key: ip, User-Agent and path; the path is the route's own
RateLimitKey(r) == r.client

\* the count of a window's counter at time t: an expired counter is gone
LiveCount(e, t) == IF e.expires <= t THEN 0 ELSE e.count

\* (a comparison off by one)
WithinQuota_Strict(count, quota) == count < quota

\* whether a count is within the quota
WithinQuota(count, quota) == count <= quota

\* One request against the limits from the i-th on, smallest window first:
\* every hit counts and restarts its window; the first breach ends the check.
RECURSIVE LimiterHit(_, _, _, _)
LimiterHit(st, lims, t, i) ==
    IF i > Len(lims) THEN [st |-> st, ok |-> TRUE, breached |-> 0]
    ELSE LET count == LiveCount(st[i], t) + 1
             st2 == [st EXCEPT ![i] = [count |-> count, expires |-> t + lims[i].len]]
         IN  IF WithinQuota(count, lims[i].quota)
             THEN LimiterHit(st2, lims, t, i + 1)
             ELSE [st |-> st2, ok |-> FALSE, breached |-> i]

(***************************************************************************)
(* api_contact.                                                            *)
(***************************************************************************)
\* `if (data.get("website") or "").strip()`
Honeypot(r) == Strip(r.website) # <<>>

ValidName(r) == Len(Strip(r.name)) >= 2
ValidEmail(r) == EmailMatches(Strip(r.email))
\* (the length taken before trimming)
ValidMessage_Untrimmed(r) == Len(r.message) >= min_message_len

ValidMessage(r) == Len(Strip(r.message)) >= min_message_len

\* the "details" of the validation error
Details(r) ==
    [name |-> IF ValidName(r) THEN "null" ELSE "too_short",
     email |-> IF ValidEmail(r) THEN "null" ELSE "invalid",
     message |-> IF ValidMessage(r) THEN "null" ELSE "too_short_min_20"]

\* CANONICAL_HOST, default
Canonical == "yusufsiddiqui.dev"

\* host_hdr == "localhost" or host_hdr.startswith("127.")
IsDevLike(h) == h = "localhost" \/ h \in {"127.0.0.1"}

\* (is_dev_like or (canonical and host_hdr and host_hdr != canonical)) and not require_on_dev
IsBypassed(h, e) ==
    /\ IsDevLike(h) \/ (Canonical # "" /\ h # "" /\ h # Canonical)
    /\ ~e.require_on_dev

\* (the chain in the opposite order)
Selected_Reversed(secrets) ==
    IF "recaptcha" \in secrets THEN "recaptcha"
    ELSE IF "hcaptcha" \in secrets THEN "hcaptcha"
    ELSE IF "turnstile" \in secrets THEN "turnstile"
    ELSE "none"

\* the provider the if/elif chain picks from the secrets left set
Selected(secrets) ==
    IF "turnstile" \in secrets THEN "turnstile"
    ELSE IF "hcaptcha" \in secrets THEN "hcaptcha"
    ELSE IF "recaptcha" \in secrets THEN "recaptcha"
    ELSE "none"

\* RECAPTCHA_MIN_SCORE, default "0.5", in tenths
MinScore == 5

\* (any decoded answer taken for a success)
Verified_AnyAnswer(p, v) == v.k = "json"

\* `if action`: neither None nor the empty string
Falsy(a) == a \in {"None", ""}

\* (a fault of the verification call let through)
Verified_FailOpen(p, v) == v.k = "fault" \/ (v.k = "json" /\ v.success)

\* whether the handler goes on after the provider's answer
Verified(p, v) ==
    /\ v.k = "json"
    /\ v.success
    /\ p = "recaptcha" =>
          /\ ~(v.score # -1 /\ v.score < MinScore)
          /\ ~(~Falsy(v.action) /\ v.action # "contact")

\* CONTACT_BYPASS_WINDOW_SEC, _BURST, _HOURLY, _DAILY, _DEDUPE_SEC defaults
window_s == 60
burst_limit == 1
hourly_limit == 3
day_limit == 10
dedupe_s == 600
BurstBucketLen == 10
HourTimeout == 3700
DayTimeout == 90000

\* the bypass keys: f"{k_prefix}:burst:{real_ip}:{ua_local}:{burst_bucket}" and so on
BurstKey(r, t) == [kind |-> "burst", client |-> r.client, bucket |-> t \div BurstBucketLen,
                   message |-> <<>>]
HourKey(r, t) == [kind |-> "hour", client |-> r.client, bucket |-> t \div 3600,
                  message |-> <<>>]
DayKey(r, t) == [kind |-> "day", client |-> r.client, bucket |-> t \div 86400,
                 message |-> <<>>]
DedupeKey(r) == [kind |-> "dedupe", client |-> r.client, bucket |-> 0,
                 message |-> Strip(r.message)]

\* cache.get(key) on the bypass entries: 0 stands for None
BypassGet(c, key, t) ==
    IF key \in DOMAIN c /\ c[key].expires > t THEN c[key].val ELSE 0

BypassSet(c, key, val, t, timeout) ==
    [k \in DOMAIN c \cup {key} |->
        IF k = key THEN [val |-> val, expires |-> t + timeout] ELSE c[k]]

\* (the cache.set left out)
IncAndGet_NoWrite(c, key, t, timeout) ==
    [cache |-> c, cur |-> BypassGet(c, key, t) + 1]

\* _inc_and_get(key, timeout): the cache after it, and the value it returns
IncAndGet(c, key, t, timeout) ==
    LET cur == BypassGet(c, key, t) + 1 IN
        [cache |-> BypassSet(c, key, cur, t, timeout), cur |-> cur]

\* the bypass block: the cache after it and the rejection, "" when it passes
\* (with the default settings and the in-memory cache no statement of the
\* block raises, so its `except: pass` is never entered)
BypassCheck(c, r, t, caps) ==
    LET b == IncAndGet(c, BurstKey(r, t), t, window_s) IN
    IF b.cur > caps[1]
    THEN [cache |-> b.cache, error |-> "rate_limited", reason |-> "burst"]
    ELSE LET h == IncAndGet(b.cache, HourKey(r, t), t, HourTimeout) IN
    IF h.cur > caps[2]
    THEN [cache |-> h.cache, error |-> "rate_limited", reason |-> "hourly"]
    ELSE LET d == IncAndGet(h.cache, DayKey(r, t), t, DayTimeout) IN
    IF d.cur > caps[3]
    THEN [cache |-> d.cache, error |-> "rate_limited", reason |-> "daily"]
    ELSE IF BypassGet(d.cache, DedupeKey(r), t) # 0
    THEN [cache |-> d.cache, error |-> "duplicate", reason |-> "recent_duplicate"]
    ELSE [cache |-> BypassSet(d.cache, DedupeKey(r), 1, t, dedupe_s),
          error |-> "", reason |-> ""]

\* the row the INSERT writes: (name, email, message, ts, ip, ua)
Row(r, t) ==
    [name |-> Strip(r.name), email |-> Strip(r.email), message |-> Strip(r.message),
     created_at |-> t, client |-> r.client]

\* what the handler leaves behind
Outcome(rs, bp, rows2, cons, v, mail) ==
    /\ resp' = rs
    /\ bypass' = bp
    /\ rows' = rows2
    /\ consulted' = cons
    /\ verdict' = v
    /\ mailed' = mail

\* the statement of sql/insert_contact_message_*.sql, run with the row's values:
\* the table gains that row
InsertRow(table, row) == Append(table, row)

\* (the statement replacing what the table holds)
Persist_Replaces(r, t, bp, cons, v) ==
    \E db_ok \in BOOLEAN :
        IF ~db_ok
        THEN Outcome(Server500, bp, rows, cons, v, "none")
        ELSE \E mail \in {"sent", "failed"} :
                Outcome(Created201(Len(rows) + 1, t), bp, << Row(r, t) >>, cons, v, mail)

\* (a failure of the notification left uncaught)
Persist_MailUncaught(r, t, bp, cons, v) ==
    \E db_ok \in BOOLEAN :
        IF ~db_ok
        THEN Outcome(Server500, bp, rows, cons, v, "none")
        ELSE \E mail \in {"sent", "failed"} :
                Outcome(IF mail = "sent" THEN Created201(Len(rows) + 1, t) ELSE Server500,
                        bp, InsertRow(rows, Row(r, t)), cons, v, mail)

\* lines 691-726: the INSERT, then the best-effort notification
Persist(r, t, bp, cons, v) ==
    \E db_ok \in BOOLEAN :
        IF ~db_ok
        THEN Outcome(Server500, bp, rows, cons, v, "none")
        ELSE \E mail \in {"sent", "failed"} :
                Outcome(Created201(Len(rows) + 1, t), bp, InsertRow(rows, Row(r, t)),
                        cons, v, mail)

\* lines 632-689: the provider chosen by the secrets left set
Captcha(r, t, bp, secrets) ==
    LET p == Selected(secrets) IN
        IF p = "none" THEN Persist(r, t, bp, <<>>, NoVerdict)
        ELSE IF p \notin r.tokens
        THEN Outcome(Captcha400("captcha_required"), bp, rows, <<>>, NoVerdict, "none")
        ELSE \E v \in Verdicts(p) :
                IF Verified(p, v)
                THEN Persist(r, t, bp, <<p>>, v)
                ELSE Outcome(Captcha400("captcha_failed"), bp, rows, <<p>>, v, "none")

\* (the bypass counters run ahead of validation)
Handle_CountsFirst(r, t) ==
    IF Honeypot(r)
    THEN Outcome(Honeypot200, bypass, rows, <<>>, NoVerdict, "none")
    ELSE IF IsBypassed(r.host, env)
    THEN LET b == BypassCheck(bypass, r, t, env.caps) IN
            IF b.error # ""
            THEN Outcome(Bypass429(b.error, b.reason), b.cache, rows, <<>>,
                         NoVerdict, "none")
            ELSE IF ~(ValidName(r) /\ ValidEmail(r) /\ ValidMessage(r))
            THEN Outcome(Validation400(Details(r)), b.cache, rows, <<>>, NoVerdict, "none")
            ELSE Captcha(r, t, b.cache, {})
    ELSE IF ~(ValidName(r) /\ ValidEmail(r) /\ ValidMessage(r))
    THEN Outcome(Validation400(Details(r)), bypass, rows, <<>>, NoVerdict, "none")
    ELSE Captcha(r, t, bypass, env.secrets)

\* (validation moved ahead of the honeypot)
Handle_ValidatesFirst(r, t) ==
    IF ~(ValidName(r) /\ ValidEmail(r) /\ ValidMessage(r))
    THEN Outcome(Validation400(Details(r)), bypass, rows, <<>>, NoVerdict, "none")
    ELSE IF Honeypot(r)
    THEN Outcome(Honeypot200, bypass, rows, <<>>, NoVerdict, "none")
    ELSE IF IsBypassed(r.host, env)
    THEN LET b == BypassCheck(bypass, r, t, env.caps) IN
            IF b.error # ""
            THEN Outcome(Bypass429(b.error, b.reason), b.cache, rows, <<>>,
                         NoVerdict, "none")
            ELSE Captcha(r, t, b.cache, {})
    ELSE Captcha(r, t, bypass, env.secrets)

\* the body of api_contact, reached when the limiter admits the request
Handle(r, t) ==
    IF Honeypot(r)
    THEN Outcome(Honeypot200, bypass, rows, <<>>, NoVerdict, "none")
    ELSE IF ~(ValidName(r) /\ ValidEmail(r) /\ ValidMessage(r))
    THEN Outcome(Validation400(Details(r)), bypass, rows, <<>>, NoVerdict, "none")
    ELSE IF IsBypassed(r.host, env)
    THEN LET b == BypassCheck(bypass, r, t, env.caps) IN
            IF b.error # ""
            THEN Outcome(Bypass429(b.error, b.reason), b.cache, rows, <<>>,
                         NoVerdict, "none")
            ELSE Captcha(r, t, b.cache, {})
    ELSE Captcha(r, t, bypass, env.secrets)

\* one POST /api/contact, gap seconds after the previous one
Contact(r, gap, limit) ==
    /\ nreq < limit
    /\ nreq' = nreq + 1
    /\ now' = now + gap
    /\ req' = r
    /\ rows0' = rows
    /\ LET hit_ == LimiterHit(limiter[RateLimitKey(r)], Limits(env.quotas), now', 1) IN
        /\ limiter' = [limiter EXCEPT ![RateLimitKey(r)] = hit_.st]
        /\ admitted' = hit_.ok
        /\ IF hit_.ok
           THEN Handle(r, now')
           ELSE Outcome(Limited429, bypass, rows, <<>>, NoVerdict, "none")
    /\ bypass_log' =
          IF /\ admitted'
             /\ ~Honeypot(r)
             /\ ValidName(r) /\ ValidEmail(r) /\ ValidMessage(r)
             /\ IsBypassed(r.host, env)
          THEN Append(bypass_log,
                      [client |-> r.client, message |-> Strip(r.message), t |-> now',
                       result |-> IF resp'.status = 429 THEN resp'.reason ELSE "passed"])
          ELSE bypass_log
    /\ UNCHANGED view_vars
    /\ UNCHANGED conc_vars
    /\ UNCHANGED << variant, json_exc, cache, pc, username, attempt, backoff,
                    last_error, data, idx, outcomes, sleeps, topic_reqs, topic_log,
                    ret, calls,
                    hit, cache0, started, oks, oks0, last_end, prev_end, env >>

\* CONTACT_BYPASS_BURST, _HOURLY, _DAILY: the defaults, and a deployment that
\* sets each to 1
DefaultCaps == << burst_limit, hourly_limit, day_limit >>
Caps == { DefaultCaps, << 1, 1, 1 >> }

\* the deployment's environment: the CAPTCHA secrets set, CAPTCHA_REQUIRE_ON_DEV,
\* the limiter's quotas and the bypass limits
Env(secrets, require_on_dev, quotas) ==
    [secrets |-> secrets, require_on_dev |-> require_on_dev, quotas |-> quotas,
     caps |-> DefaultCaps]

DefaultEnv == Env({}, FALSE, DefaultQuotas)

Envs ==
    { Env(s, FALSE, DefaultQuotas) :
        s \in {{}, {"turnstile"}, {"hcaptcha"}, {"recaptcha"},
               {"hcaptcha", "recaptcha"}, Providers} }
        \cup { Env({"recaptcha"}, TRUE, DefaultQuotas) }
        \cup { Env({"turnstile"}, FALSE, q) : q \in Quotas }

NoReq == Request("-", "", <<>>, <<>>, <<>>, <<>>, {})

MaxThreads == 2

\* the server threads
Threads == 1..MaxThreads

\* a thread that has not been given a request
IdleThread == [pc |-> "idle"]

\* no two requests overlap
ConcIdle ==
    /\ fth = [t \in Threads |-> IdleThread]
    /\ cwrites = <<>>
    /\ cth = [t \in Threads |-> IdleThread]

NoView == [kind |-> "none"]

\* no search and no feed request served
ViewIdle ==
    /\ fetched = NoRet
    /\ view = NoView

\* no request served yet
ContactIdle ==
    /\ limiter = [c \in Clients |-> [i \in 1..3 |-> NoCount]]
    /\ bypass = [k \in {} |-> NoCount]
    /\ rows = <<>>
    /\ rows0 = <<>>
    /\ nreq = 0
    /\ req = NoReq
    /\ resp = NoResp
    /\ admitted = FALSE
    /\ consulted = <<>>
    /\ verdict = NoVerdict
    /\ mailed = "none"
    /\ bypass_log = <<>>

\* no call made yet
FetchIdle ==
    /\ now = 0
    /\ cache = [u \in Users |-> NoEntry]
    /\ pc = "idle"
    /\ username = "u1"
    /\ attempt = 1
    /\ backoff = InitialBackoff
    /\ last_error = PyNone
    /\ data = PyNone
    /\ idx = 0
    /\ outcomes = <<>>
    /\ sleeps = <<>>
    /\ topic_reqs = 0
    /\ topic_log = <<>>
    /\ ret = NoRet
    /\ calls = 0
    /\ hit = FALSE
    /\ cache0 = cache
    /\ started = 0
    /\ oks = [u \in Users |-> {}]
    /\ oks0 = {}
    /\ last_end = [u \in Users |-> "never"]
    /\ prev_end = "never"

FetchInit ==
    /\ variant \in Variants
    /\ json_exc \in BOOLEAN
    /\ FetchIdle
    /\ env = DefaultEnv
    /\ ContactIdle
    /\ ViewIdle
    /\ ConcIdle

\* calls on a cold or warm cache with every upstream behaviour
(***************************************************************************)
(* GET /api/github/repos: what api_github_repos answers, given what        *)
(* _fetch_github_repos gave it.                                            *)
(***************************************************************************)
ApiAnswer(status, keys, ok, error, u, repos) ==
    [status |-> status, keys |-> keys, ok |-> ok, error |-> error,
     username |-> u, repos |-> repos]

\* a handler that passes on whatever status the error carries
ApiGithubRepos_PassesStatus(u, r) ==
    IF r.kind = "raise"
    THEN ApiAnswer(500, IF variant = "main"
                        THEN {"ok", "error", "message", "path", "timestamp"}
                        ELSE {}, FALSE, "server_error", "", PyNone)
    ELSE IF r.error # PyNone
    THEN ApiAnswer(r.error.status,
                   {"ok", "error", "message", "username"}, FALSE, r.error.type, u, PyNone)
    ELSE ApiAnswer(200, {"ok", "username", "repos"}, TRUE, "", u, r.data)

\* `data, error = _fetch_github_repos(username)`; `if error:` the error body with
\* `status if isinstance(status, int) and status >= 400 else 502`; else the
\* listing. An exception of the fetch ends in the 500 handler: JSON in main.py,
\* Flask's own page in app.py.
ApiGithubRepos(u, r) ==
    IF r.kind = "raise"
    THEN ApiAnswer(500, IF variant = "main"
                        THEN {"ok", "error", "message", "path", "timestamp"}
                        ELSE {}, FALSE, "server_error", "", PyNone)
    ELSE IF r.error # PyNone
    THEN ApiAnswer(IF r.error.status >= 400 THEN r.error.status ELSE 502,
                   {"ok", "error", "message", "username"}, FALSE, r.error.type, u, PyNone)
    ELSE ApiAnswer(200, {"ok", "username", "repos"}, TRUE, "", u, r.data)

RetryNext ==
    \/ Begin("u1", 0, MaxRetryCalls)
    \/ \E o \in Outcomes : Attempt(o)
    \/ Sleep
    \/ \E o \in TopicOutcomes : Topic(o)
    \/ Store

RetrySpec == FetchInit /\ [][RetryNext]_vars

\* every requests.get carries a timeout (7 s, 5 s for topics) and time.sleep returns: a step of the
\* call that can be taken is taken
RetryFairSpec ==
    /\ RetrySpec
    /\ WF_vars(\E o \in Outcomes : Attempt(o))
    /\ WF_vars(Sleep)
    /\ WF_vars(\E o \in TopicOutcomes : Topic(o))
    /\ WF_vars(Store)

\* either program; no body drawn below is undecodable, so what resp.json()
\* raises plays no part
CacheInit ==
    /\ variant \in Variants
    /\ json_exc = FALSE
    /\ FetchIdle
    /\ env = DefaultEnv
    /\ ContactIdle
    /\ ViewIdle
    /\ ConcIdle

\* calls spread over time
CacheNext ==
    \/ \E u \in Users, gap \in Gaps : Begin(u, gap, MaxCalls)
    \/ \E o \in CacheOutcomes : Attempt(o)
    \/ Sleep
    \/ \E o \in TopicOutcomes : Topic(o)
    \/ Store

CacheSpec == CacheInit /\ [][CacheNext]_vars

(***************************************************************************)
(* The contact form under load.                                            *)
(***************************************************************************)
MaxRequests == 2

Blank == <<" ">>
Padded(s) == <<" ">> \o s \o <<" ">>

\* the forms posted: bots, bad fields one at a time and together, and good
\* submissions with and without tokens, from the public and the local host
Forms ==
    { Request("c1", "localhost", Padded(<<"x">>), <<>>, <<"a", "@", "b">>, <<>>, Providers),
      Request("c1", Canonical, Blank, Padded(<<"a">>), GoodEmail, Padded(GoodMessage), {}),
      Request("c1", "localhost", <<>>, GoodName, <<"a", "b", ".", "c", "o">>, GoodMessage, {}),
      Request("c1", Canonical, <<>>, GoodName, GoodEmail,
              Chars(min_message_len - 1, "x") \o <<" ">>, Providers),
      Request("c1", Canonical, <<>>, Blank, <<>>, <<>>, {}) }
  \cup
    { Request("c1", Canonical, <<>>, GoodName, Padded(GoodEmail), GoodMessage, tk) :
        tk \in {{}, {"hcaptcha"}, Providers} }
  \cup
    { Request("c2", Canonical, <<>>, GoodName, GoodEmail, GoodMessage, Providers),
      Request("c1", "127.0.0.1", <<>>, GoodName, GoodEmail, GoodMessage, Providers),
      Request("c1", "localhost", <<>>, GoodName, GoodEmail, Chars(min_message_len, "o"), {}),
      Request("c1", "other.example", <<>>, GoodName, GoodEmail, GoodMessage, {}),
      Request("c1", "", <<>>, GoodName, GoodEmail, GoodMessage, Providers) }

\* seconds between one request and the next
ContactGaps == {0, 60, 3600}

ContactInit ==
    /\ variant = "main"
    /\ json_exc = FALSE
    /\ FetchIdle
    /\ env \in Envs
    /\ ContactIdle
    /\ ViewIdle
    /\ ConcIdle

ContactNext == \E r \in Forms, gap \in ContactGaps : Contact(r, gap, MaxRequests)

ContactSpec == ContactInit /\ [][ContactNext]_vars

(***************************************************************************)
(* Submissions from local and non-canonical hosts.                         *)
(***************************************************************************)
MaxBypassRequests == 3

\* a development deployment: no CAPTCHA secret, the bypass limits as configured
BypassEnvs == { [DefaultEnv EXCEPT !.caps = c] : c \in Caps }

\* two messages from one client on localhost, the first of them also through a
\* non-canonical host and from another client, and a form that fails validation
BypassForms ==
    { Request("c1", "localhost", <<>>, GoodName, GoodEmail, Padded(GoodMessage), {}),
      Request("c1", "localhost", <<>>, GoodName, GoodEmail, Chars(min_message_len, "o"), {}),
      Request("c1", "other.example", <<>>, GoodName, GoodEmail, GoodMessage, {}),
      Request("c2", "localhost", <<>>, GoodName, GoodEmail, GoodMessage, {}),
      Request("c1", "localhost", <<>>, GoodName, <<>>, GoodMessage, {}) }

\* seconds between one submission and the next: the same burst bucket, half a
\* dedupe window, the next hour
BypassGaps == {0, 300, 3600}

BypassInit ==
    /\ variant = "main"
    /\ json_exc = FALSE
    /\ FetchIdle
    /\ env \in BypassEnvs
    /\ ContactIdle
    /\ ViewIdle
    /\ ConcIdle

BypassNext == \E r \in BypassForms, gap \in BypassGaps : Contact(r, gap, MaxBypassRequests)

BypassSpec == BypassInit /\ [][BypassNext]_vars

\* submissions a few seconds apart: within one burst bucket, across its end,
\* and most of a minute later
BurstGaps == {0, BurstBucketLen, window_s - BurstBucketLen}

BurstForms ==
    { Request("c1", "localhost", <<>>, GoodName, GoodEmail, GoodMessage, {}),
      Request("c1", "localhost", <<>>, GoodName, GoodEmail, Chars(min_message_len, "o"), {}),
      Request("c2", "localhost", <<>>, GoodName, GoodEmail, GoodMessage, {}) }

BurstNext == \E r \in BurstForms, gap \in BurstGaps : Contact(r, gap, MaxBypassRequests)

BurstSpec == BypassInit /\ [][BurstNext]_vars

\* a bot's form and a form with a bad address, each on the local and on the
\* public host, between good submissions that set the counters or reach the
\* CAPTCHA
OrderForms ==
    { Request("c1", "localhost", Padded(<<"x">>), <<>>, <<"a", "@", "b">>, <<>>, Providers),
      Request("c1", Canonical, <<"x">>, Blank, <<>>, <<>>, {}),
      Request("c1", "localhost", <<>>, GoodName, <<"a", "b", ".", "c", "o">>, GoodMessage, {}),
      Request("c1", Canonical, <<>>, GoodName, GoodEmail,
              Chars(min_message_len - 1, "x") \o <<" ">>, Providers),
      Request("c1", "localhost", <<>>, GoodName, GoodEmail, GoodMessage, {}),
      Request("c1", Canonical, <<>>, GoodName, GoodEmail, GoodMessage, Providers) }

OrderEnvs == BypassEnvs \cup { Env({"hcaptcha"}, FALSE, DefaultQuotas) }

OrderInit ==
    /\ variant = "main"
    /\ json_exc = FALSE
    /\ FetchIdle
    /\ env \in OrderEnvs
    /\ ContactIdle
    /\ ViewIdle
    /\ ConcIdle

OrderNext == \E r \in OrderForms, gap \in {0, window_s} : Contact(r, gap, MaxBypassRequests)

OrderSpec == OrderInit /\ [][OrderNext]_vars

(***************************************************************************)
(* main.py's enrichment of a listing, over everything a topics request can *)
(* get.                                                                    *)
(***************************************************************************)
MaxTopicRepos == 2
MaxTopicCalls == 1

\* a failed attempt before the listing, or the listing at once
TopicListings ==
    { Timeout } \cup { Http200(JList(s)) : s \in SeqsUpTo(RepoKinds, MaxTopicRepos) }

TopicInit ==
    /\ variant = "main"
    /\ json_exc = FALSE
    /\ FetchIdle
    /\ env = DefaultEnv
    /\ ContactIdle
    /\ ViewIdle
    /\ ConcIdle

TopicNext ==
    \/ Begin("u1", 0, MaxTopicCalls)
    \/ \E o \in TopicListings : Attempt(o)
    \/ Sleep
    \/ \E o \in AllTopicOutcomes : Topic(o)
    \/ Store

TopicSpec == TopicInit /\ [][TopicNext]_vars

(***************************************************************************)
(* GET /api/search and GET /feed.xml: pure functions of the fetched list.  *)
(* A repository is the dict GitHub lists; a string is a sequence of        *)
(* characters, a missing or null string is <<>>, a timestamp is a number   *)
(* that orders as its ISO text does, 0 when missing.                       *)
(***************************************************************************)
VRepo(url, name, description, language, topics, stars, pushed_at, updated_at) ==
    [html_url |-> url, name |-> name, description |-> description,
     language |-> language, topics |-> topics, stargazers_count |-> stars,
     pushed_at |-> pushed_at, updated_at |-> updated_at]

\* str.lower()
LowerChar(c) == IF c = "A" THEN "a" ELSE IF c = "B" THEN "b" ELSE c
Lower(s) == [i \in 1..Len(s) |-> LowerChar(s[i])]

\* " ".join(parts)
RECURSIVE JoinSp(_)
JoinSp(parts) ==
    IF parts = <<>> THEN <<>>
    ELSE IF Len(parts) = 1 THEN parts[1]
    ELSE parts[1] \o <<" ">> \o JoinSp(Tail(parts))

\* (a test of the query's first character only)
Contains_FirstChar(text, ql) ==
    \E i \in 1..Len(text) : ql # <<>> /\ text[i] = ql[1]

\* `ql in text`
Contains(text, ql) ==
    \E i \in 0..(Len(text) - Len(ql)) : SubSeq(text, i + 1, i + Len(ql)) = ql

\* " ".join([name or "", description or "", language or "", " ".join(topics or [])]).lower()
Text(r) == Lower(JoinSp(<< r.name, r.description, r.language, JoinSp(r.topics) >>))

\* (the later of the two timestamps)
LastUpdate_Latest(r) == IF r.pushed_at > r.updated_at THEN r.pushed_at ELSE r.updated_at

\* r.get("pushed_at") or r.get("updated_at")
LastUpdate(r) == IF r.pushed_at # 0 THEN r.pushed_at ELSE r.updated_at

\* the dict appended to results
SearchResult(r) ==
    [html_url |-> r.html_url, name |-> r.name, description |-> r.description,
     language |-> r.language, stars |-> r.stargazers_count,
     updated_at |-> LastUpdate(r), topics |-> r.topics]

\* key=lambda x: (x["stars"], x["updated_at"] or "")
SearchKey(x) == << x.stars, x.updated_at >>

\* key=lambda r: r.get("pushed_at") or r.get("updated_at") or ""
FeedKey(r) == << LastUpdate(r), 0 >>

\* (an ascending comparison)
KeyGE_Ascending(a, b) == a[1] < b[1] \/ (a[1] = b[1] /\ a[2] <= b[2])

\* tuple comparison a >= b
KeyGE(a, b) == a[1] > b[1] \/ (a[1] = b[1] /\ a[2] >= b[2])

\* list.sort(reverse=True) and sorted(reverse=True) are stable: equal keys keep
\* the order they came in. Elements are [key, item].
RECURSIVE InsertDesc(_, _)
InsertDesc(sorted, x) ==
    IF sorted = <<>> THEN << x >>
    ELSE IF KeyGE(Head(sorted).key, x.key)
         THEN << Head(sorted) >> \o InsertDesc(Tail(sorted), x)
         ELSE << x >> \o sorted

RECURSIVE SortDesc(_)
SortDesc(s) ==
    IF s = <<>> THEN <<>>
    ELSE InsertDesc(SortDesc(SubSeq(s, 1, Len(s) - 1)), s[Len(s)])

SortedItems(s) == [i \in 1..Len(s) |-> SortDesc(s)[i].item]

\* the slice [:n]
Take(s, n) == SubSeq(s, 1, IF Len(s) < n THEN Len(s) ELSE n)

View(kind, q, status, mimetype, keys, count, results) ==
    [kind |-> kind, q |-> q, status |-> status, mimetype |-> mimetype,
     keys |-> keys, count |-> count, results |-> results]

\* (count taken after the slice)
ApiSearch_CountsShown(q_raw, f) ==
    LET q == Strip(q_raw) IN
    IF q = <<>>
    THEN View("search", q_raw, 200, "application/json", {"ok", "results"}, -1, <<>>)
    ELSE IF f.error # PyNone
    THEN View("search", q_raw, 502, "application/json", {"ok", "error", "message"},
              -1, <<>>)
    ELSE LET ql == Lower(q)
             matches == SelectSeq(Items(f.data), LAMBDA r : Contains(Text(r), ql))
             results == [i \in 1..Len(matches) |->
                            [key |-> SearchKey(SearchResult(matches[i])),
                             item |-> SearchResult(matches[i])]]
         IN View("search", q_raw, 200, "application/json", {"ok", "count", "results"},
                 Len(Take(SortedItems(results), 10)), Take(SortedItems(results), 10))

\* api_search
ApiSearch(q_raw, f) ==
    LET q == Strip(q_raw) IN
    IF q = <<>>
    THEN View("search", q_raw, 200, "application/json", {"ok", "results"}, -1, <<>>)
    ELSE IF f.error # PyNone
    THEN View("search", q_raw, 502, "application/json", {"ok", "error", "message"},
              -1, <<>>)
    ELSE LET ql == Lower(q)
             matches == SelectSeq(Items(f.data), LAMBDA r : Contains(Text(r), ql))
             results == [i \in 1..Len(matches) |->
                            [key |-> SearchKey(SearchResult(matches[i])),
                             item |-> SearchResult(matches[i])]]
         IN View("search", q_raw, 200, "application/json", {"ok", "count", "results"},
                 Len(results), Take(SortedItems(results), 10))

\* the <item> of one repository
FeedItem(r) == [link |-> r.html_url, title |-> r.name, pubDate |-> LastUpdate(r)]

\* feed_xml
FeedXml(f) ==
    IF f.error # PyNone
    THEN View("feed", <<>>, 503, "text/plain", {}, -1, <<>>)
    ELSE LET keyed == [i \in 1..Len(Items(f.data)) |->
                          [key |-> FeedKey(Items(f.data)[i]),
                           item |-> FeedItem(Items(f.data)[i])]]
         IN View("feed", <<>>, 200, "application/rss+xml", {}, -1,
                 Take(SortedItems(keyed), 10))

\* GET /api/search?q=...
Search(q) ==
    /\ view' = ApiSearch(q, fetched)
    /\ UNCHANGED << fetch_vars, contact_vars, fetched, conc_vars >>

\* GET /feed.xml
Feed ==
    /\ view' = FeedXml(fetched)
    /\ UNCHANGED << fetch_vars, contact_vars, fetched, conc_vars >>

MaxViewRepos == 2
MaxLongRepos == 11

ViewKinds ==
    { VRepo(0, <<"A", "b">>, <<>>, <<>>, <<>>, 1, 0, 1),
      VRepo(0, <<"a">>, <<"b">>, <<>>, <<>>, 0, 2, 3),
      VRepo(0, <<"c">>, <<>>, <<"b">>, << <<"a">> >>, 1, 3, 1),
      VRepo(0, <<"c">>, <<>>, <<>>, <<>>, 0, 0, 0),
      VRepo(0, <<"B">>, <<>>, <<>>, << <<"a">>, <<"b">> >>, 2, 1, 0) }

\* a listing: each repository has its own html_url
Numbered(s) == [i \in 1..Len(s) |-> [s[i] EXCEPT !.html_url = i]]

ViewLists ==
    { Numbered(s) : s \in SeqsUpTo(ViewKinds, MaxViewRepos) }
      \cup { Numbered([i \in 1..n |-> IF i <= k THEN a ELSE b]) :
                n \in {10, MaxLongRepos}, k \in {0, 1, 9, 10}, a \in ViewKinds, b \in ViewKinds }
      \cup { Numbered([i \in 1..n |-> IF i % 2 = 0 THEN a ELSE b]) :
                n \in {MaxLongRepos}, a \in ViewKinds, b \in ViewKinds }

ViewFetched ==
    { Returned(JList(l), PyNone) : l \in ViewLists }
      \cup { Returned(PyNone, Err("timeout", 504)), Returned(PyNone, Err("rate_limited", 429)) }

Queries ==
    { <<"a">>, <<" ", "B", " ">>, <<"a", "b">>, <<"a", " ", "b">>, <<"c">>,
      <<"z">>, <<" ">>, <<>> }

ViewInit ==
    /\ variant = "main"
    /\ json_exc = FALSE
    /\ FetchIdle
    /\ env = DefaultEnv
    /\ ContactIdle
    /\ fetched \in ViewFetched
    /\ view = NoView
    /\ ConcIdle

ViewNext ==
    \/ \E q \in Queries : Search(q)
    \/ Feed

ViewSpec == ViewInit /\ [][ViewNext]_vars

(***************************************************************************)
(* Calls of _fetch_github_repos for one account on several threads. They   *)
(* share the cache and the clock; each step below is one thread's move     *)
(* between two accesses to the cache or the network.                       *)
(***************************************************************************)
\* the locals of a call
FetchThread(p, att, b, n, e, d, missed, r) ==
    [pc |-> p, attempt |-> att, backoff |-> b, n |-> n, last_error |-> e,
     data |-> d, missed |-> missed, ret |-> r]

\* cached = cache.get(cache_key); if cached is not None: return cached, None
TBegin(t) ==
    /\ fth[t].pc = "idle"
    /\ LET cached == CacheGet(cache, CacheKey("u1"), now) IN
         fth' = [fth EXCEPT ![t] =
                    IF IsHit(cached)
                    THEN FetchThread("done", 1, InitialBackoff, 0, PyNone, PyNone, FALSE,
                                     Returned(cached, PyNone))
                    ELSE FetchThread("request", 1, InitialBackoff, 0, PyNone, PyNone, TRUE,
                                     NoRet)]
    /\ UNCHANGED << now, cache, cwrites, cth, call_vars, contact_vars, view_vars >>

\* after a failed attempt: sleep and go round again, or return the last error
TFail(th, e) ==
    IF Retries(e, th.attempt)
    THEN [th EXCEPT !.pc = "sleep", !.n = @ + 1, !.last_error = e]
    ELSE [th EXCEPT !.pc = "done", !.n = @ + 1, !.last_error = e,
                    !.ret = Returned(PyNone, e)]

\* one pass of the retry loop up to, and not including, cache.set
TAttempt(t, o) ==
    /\ fth[t].pc = "request"
    /\ fth' = [fth EXCEPT ![t] =
                  IF o.k = "timeout" THEN TFail(@, Err("timeout", 504))
                  ELSE IF o.k = "fault" THEN TFail(@, Err("request_exception", 502))
                  ELSE IF o.status # 200 THEN TFail(@, StatusError(o.status))
                  ELSE [@ EXCEPT !.pc = "store", !.n = @ + 1, !.data = o.body]]
    /\ UNCHANGED << now, cache, cwrites, cth, call_vars, contact_vars, view_vars >>

\* time.sleep(backoff); backoff *= 2; continue
TSleep(t) ==
    /\ fth[t].pc = "sleep"
    /\ now' = now + fth[t].backoff
    /\ fth' = [fth EXCEPT ![t] = [@ EXCEPT !.pc = "request", !.attempt = @ + 1,
                                           !.backoff = NextBackoff(@)]]
    /\ UNCHANGED << cache, cwrites, cth, call_vars, contact_vars, view_vars >>

\* cache.set(cache_key, data, timeout=300); return data, None
TStore(t) ==
    /\ fth[t].pc = "store"
    /\ cache' = CacheSet(cache, CacheKey("u1"), fth[t].data, now, CacheTTL)
    /\ cwrites' = Append(cwrites, t)
    /\ fth' = [fth EXCEPT ![t] = [@ EXCEPT !.pc = "done",
                                           !.ret = Returned(fth[t].data, PyNone)]]
    /\ UNCHANGED << now, cth, call_vars, contact_vars, view_vars >>

\* what the upstream answers while two calls overlap: a failure that is
\* retried, one that is not, and two listings that differ
ConcOutcomes ==
    { Timeout, Http(429), Http200(JList(<<>>)) }
      \cup { Http200(JList(<<r>>)) : r \in {k \in RepoKinds : k.hasTopics} }

ConcInit ==
    /\ variant = "main"
    /\ json_exc = FALSE
    /\ FetchIdle
    /\ env = DefaultEnv
    /\ ContactIdle
    /\ ViewIdle
    /\ ConcIdle

ConcNext ==
    \E t \in Threads :
        \/ TBegin(t)
        \/ \E o \in ConcOutcomes : TAttempt(t, o)
        \/ TSleep(t)
        \/ TStore(t)

ConcSpec == ConcInit /\ [][ConcNext]_vars

(***************************************************************************)
(* Submissions in bypass mode that overlap: Waitress hands each request to *)
(* a thread of its pool, and the threads share the cache.  A step is one   *)
(* call on the cache or on the database; the limiter's hit is one step.    *)
(***************************************************************************)
\* the counters of the bypass block, "burst", "hour" and "day" in the order the
\* block takes them, then the fingerprint, "dedupe"
StageKey(s, r, t) ==
    CASE s = "burst" -> BurstKey(r, t)
      [] s = "hour" -> HourKey(r, t)
      [] s = "day" -> DayKey(r, t)
      [] OTHER -> DedupeKey(r)

StageTimeout(s) ==
    CASE s = "burst" -> window_s
      [] s = "hour" -> HourTimeout
      [] s = "day" -> DayTimeout
      [] OTHER -> dedupe_s

StageCap(s, caps) ==
    CASE s = "burst" -> caps[1]
      [] s = "hour" -> caps[2]
      [] OTHER -> caps[3]

\* the "reason" of the 429 a counter gives
StageReason(s) ==
    CASE s = "burst" -> "burst"
      [] s = "hour" -> "hourly"
      [] OTHER -> "daily"

StageAfter(s) ==
    CASE s = "burst" -> "hour"
      [] s = "hour" -> "day"
      [] OTHER -> "dedupe"

\* the locals of a submission: its position, the form, the counter it is at,
\* the value _inc_and_get computed, the counters it got past and its answer
ContactThread(p, r, s, cur, passed, rs) ==
    [pc |-> p, req |-> r, stage |-> s, cur |-> cur, passed |-> passed, resp |-> rs]

\* the limiter's decorator, then the honeypot and the fields: a good form from
\* the local host goes on to the bypass block
CBegin(t, r) ==
    /\ cth[t].pc = "idle"
    /\ LET hit_ == LimiterHit(limiter[RateLimitKey(r)], Limits(env.quotas), now, 1) IN
        /\ limiter' = [limiter EXCEPT ![RateLimitKey(r)] = hit_.st]
        /\ cth' = [cth EXCEPT ![t] =
                      IF hit_.ok
                      THEN ContactThread("get", r, "burst", 0, {}, NoResp)
                      ELSE ContactThread("done", r, "burst", 0, {}, Limited429)]
    /\ UNCHANGED << fetch_vars, view_vars, fth, cwrites >>
    /\ UNCHANGED << env, bypass, rows, rows0, nreq, req, resp, admitted, consulted,
                    verdict, mailed, bypass_log >>

\* val = cache.get(key); cur = int(val or 0) + 1, and for the fingerprint
\* `if cache.get(msg_fingerprint): return ... 429`
CGet(t) ==
    /\ cth[t].pc = "get"
    /\ LET th == cth[t]
           val == BypassGet(bypass, StageKey(th.stage, th.req, now), now)
       IN cth' = [cth EXCEPT ![t] =
                    IF th.stage = "dedupe" /\ val # 0
                    THEN [th EXCEPT !.pc = "done",
                                    !.resp = Bypass429("duplicate", "recent_duplicate")]
                    ELSE [th EXCEPT !.pc = "set", !.cur = val + 1]]
    /\ UNCHANGED << fetch_vars, view_vars, fth, cwrites, contact_vars >>

\* cache.set(key, cur, timeout=timeout); return cur, then the comparison with
\* the limit; for the fingerprint cache.set(msg_fingerprint, 1, timeout=600)
CSet(t) ==
    /\ cth[t].pc = "set"
    /\ LET th == cth[t] IN
        /\ bypass' = BypassSet(bypass, StageKey(th.stage, th.req, now),
                               IF th.stage = "dedupe" THEN 1 ELSE th.cur,
                               now, StageTimeout(th.stage))
        /\ cth' = [cth EXCEPT ![t] =
                      IF th.stage = "dedupe"
                      THEN [th EXCEPT !.pc = "persist", !.passed = @ \cup {"dedupe"}]
                      ELSE IF th.cur > StageCap(th.stage, env.caps)
                      THEN [th EXCEPT !.pc = "done",
                                      !.resp = Bypass429("rate_limited",
                                                         StageReason(th.stage))]
                      ELSE [th EXCEPT !.pc = "get", !.passed = @ \cup {th.stage},
                                      !.stage = StageAfter(th.stage)]]
    /\ UNCHANGED << fetch_vars, view_vars, fth, cwrites >>
    /\ UNCHANGED << env, limiter, rows, rows0, nreq, req, resp, admitted, consulted,
                    verdict, mailed, bypass_log >>

\* no CAPTCHA in bypass mode: the INSERT and the answer (the notification
\* leaves nothing behind)
CPersist(t) ==
    /\ cth[t].pc = "persist"
    /\ \E db_ok \in BOOLEAN :
        IF db_ok
        THEN /\ rows' = InsertRow(rows, Row(cth[t].req, now))
             /\ cth' = [cth EXCEPT ![t] = [@ EXCEPT !.pc = "done",
                                              !.resp = Created201(Len(rows) + 1, now)]]
        ELSE /\ rows' = rows
             /\ cth' = [cth EXCEPT ![t] = [@ EXCEPT !.pc = "done", !.resp = Server500]]
    /\ UNCHANGED << fetch_vars, view_vars, fth, cwrites >>
    /\ UNCHANGED << env, limiter, bypass, rows0, nreq, req, resp, admitted, consulted,
                    verdict, mailed, bypass_log >>

\* one client on the local host, a different message in each form
OverlapForms ==
    { Request("c1", "localhost", <<>>, GoodName, GoodEmail, GoodMessage, {}),
      Request("c1", "localhost", <<>>, GoodName, GoodEmail, Chars(min_message_len, "o"), {}) }

\* the client's keys are those of any of its forms
OverlapRequest == CHOOSE r \in OverlapForms : TRUE

OverlapInit ==
    /\ variant = "main"
    /\ json_exc = FALSE
    /\ FetchIdle
    /\ env \in BypassEnvs
    /\ ContactIdle
    /\ ViewIdle
    /\ ConcIdle

OverlapNext ==
    \E t \in Threads :
        \/ \E r \in OverlapForms : CBegin(t, r)
        \/ CGet(t)
        \/ CSet(t)
        \/ CPersist(t)

OverlapSpec == OverlapInit /\ [][OverlapNext]_vars

(***************************************************************************)
(* The handlers side by side: contact submissions while repositories are   *)
(* fetched for /api/github/repos, /api/search, /feed.xml and the pages.    *)
(***************************************************************************)
MaxSiteRequests == 2
MaxSiteCalls == 1

SiteForms ==
    { Request("c1", Canonical, <<"x">>, GoodName, GoodEmail, GoodMessage, {}),
      Request("c1", Canonical, <<>>, GoodName, <<>>, GoodMessage, {}),
      Request("c1", Canonical, <<>>, GoodName, GoodEmail, GoodMessage, {"turnstile"}),
      Request("c1", "localhost", <<>>, GoodName, GoodEmail, GoodMessage, {}) }

SiteEnvs == { Env({}, FALSE, DefaultQuotas), Env({"turnstile"}, FALSE, << 1, 1, 1 >>) }

\* upstream, while the form is in use: a failure that is retried, one that is
\* not, and a listing
SiteOutcomes ==
    { Timeout, Http(404) }
      \cup { Http200(JList(<<r>>)) : r \in {k \in RepoKinds : k.name = "a" /\ ~k.hasTopics} }

SiteInit ==
    /\ variant = "main"
    /\ json_exc = FALSE
    /\ FetchIdle
    /\ env \in SiteEnvs
    /\ ContactIdle
    /\ ViewIdle
    /\ ConcIdle

SiteNext ==
    \/ \E r \in SiteForms, gap \in {0, 60} : Contact(r, gap, MaxSiteRequests)
    \/ Begin("u1", 0, MaxSiteCalls)
    \/ \E o \in SiteOutcomes : Attempt(o)
    \/ Sleep
    \/ \E o \in TopicOutcomes : Topic(o)
    \/ Store

SiteSpec == SiteInit /\ [][SiteNext]_vars

(***************************************************************************)
(* Properties of _fetch_github_repos.                                      *)
(***************************************************************************)
IsHttp(o, S) == o.k = "http" /\ o.status \in S

ErrorTypes == {"rate_limited", "upstream_error", "bad_status", "timeout",
               "request_exception"}

\* C1: a primary response with status 403 or 429 is the last one of its call,
\* whichever attempt received it: the call has returned (None, rate_limited
\* with that status), and no sleep follows the response.
C1_RateLimitReturnsAtOnce ==
    \A i \in 1..Len(outcomes) :
        IsHttp(outcomes[i], {403, 429}) =>
            /\ i = Len(outcomes)
            /\ pc = "done"
            /\ ret = Returned(PyNone, Err("rate_limited", outcomes[i].status))
            /\ Len(sleeps) = i - 1
            /\ cache = cache0

C1_Witness ==
    /\ pc = "done"
    /\ Len(outcomes) = 3
    /\ IsHttp(outcomes[3], {403})
    /\ ret.error.type = "rate_limited"

\* C2: a call that missed the cache and got a 5xx on every attempt ends after
\* exactly 3 primary requests, having slept 1s after the first and 2s after
\* the second and not after the third, with upstream_error and the status of
\* the third response; until then it sleeps after each 5xx.
All5xx == \A i \in 1..Len(outcomes) : IsHttp(outcomes[i], 500..599)

C2_ServerErrorsRetriedThrice ==
    (pc # "idle" /\ ~hit /\ outcomes # <<>> /\ All5xx) =>
        /\ Len(outcomes) <= 3
        /\ Len(outcomes) < 3 => pc \in {"sleep", "request"}
        /\ pc = "sleep" => sleeps = SubSeq(<<1, 2>>, 1, Len(outcomes) - 1)
        /\ pc = "request" => sleeps = SubSeq(<<1, 2>>, 1, Len(outcomes))
        /\ Len(outcomes) = 3 =>
              /\ pc = "done"
              /\ sleeps = <<1, 2>>
              /\ ret = Returned(PyNone, Err("upstream_error", outcomes[3].status))

C2_Witness ==
    /\ pc = "done"
    /\ outcomes = << Http(500), Http(500), Http(503) >>
    /\ ret.error.status = 503

\* C3: once a call for u has returned data obtained from an HTTP 200, a later
\* call for u that begins less than 300 seconds after that cache write is
\* answered at once with that same data and no error, and issues no listing
\* request and no topic request.
C3_CachedWithinTTL ==
    \A p \in oks0 :
        (pc # "idle" /\ started < p.at + 300) =>
            /\ pc = "done"
            /\ hit
            /\ ret = Returned(p.data, PyNone)
            /\ outcomes = <<>>
            /\ topic_reqs = 0

C3_Witness ==
    /\ pc = "done"
    /\ hit
    /\ ret = Returned(JList(<<>>), PyNone)
    /\ \E p \in oks0 : started = p.at + 299

\* C4: the fetch writes the cache only when it returns a successful result,
\* and then what it returned; a call that ends in a typed error leaves the
\* cache as it found it, and the next call for that account misses the cache,
\* starts at attempt 1 with a backoff of 1s and issues a primary request.
C4_ErrorsNeverCached ==
    /\ (pc # "idle" /\ cache # cache0) =>
            /\ pc = "done"
            /\ ret.kind = "return"
            /\ ret.error = PyNone
            /\ cache = CacheSet(cache0, CacheKey(username), ret.data, now, CacheTTL)
    /\ (pc = "done" /\ ret.kind = "return" /\ ret.error # PyNone) =>
            /\ ret.error.type \in ErrorTypes
            /\ cache = cache0
    /\ (pc # "idle" /\ prev_end = "error") =>
            /\ ~hit
            /\ outcomes = <<>> => (pc = "request" /\ attempt = 1 /\ backoff = 1)
            /\ pc = "done" => Len(outcomes) >= 1

C4_Witness ==
    /\ prev_end = "error"
    /\ pc = "done"
    /\ ret.kind = "return"
    /\ ret.error # PyNone
    /\ ret.error.type = "request_exception"
    /\ Len(outcomes) = 3

\* C5: whatever the upstream does on each attempt, the call returns
\* (data, None) or (None, typed error) and raises nothing to its caller.
C5_NeverRaises ==
    pc = "done" =>
        /\ ret.kind = "return"
        /\ \/ ret.error = PyNone
           \/ (ret.data = PyNone /\ ret.error.type \in ErrorTypes)

(***************************************************************************)
(* POST /api/contact.                                                      *)
(***************************************************************************)
Served == nreq > 0

HoneypotFilled == Strip(req.website) # <<>>

NameFails == Len(Strip(req.name)) < 2
EmailFails == ~EmailMatches(Strip(req.email))
MessageFails == Len(Strip(req.message)) < 20
FieldsFail == NameFails \/ EmailFails \/ MessageFails

IsOkTrue == resp.status = 200 /\ resp.ok /\ resp.keys = {"ok"}

LimiterRejected ==
    /\ resp.status = 429
    /\ ~resp.ok
    /\ resp.error = "rate_limited"
    /\ "reason" \notin resp.keys

\* C6 as stated: a request whose trimmed `website` is non-empty is always
\* answered {ok:true}, and inserts no row.
C6_HoneypotAlwaysOk ==
    (Served /\ HoneypotFilled) => (IsOkTrue /\ rows = rows0)

\* C6 amended: a request whose trimmed `website` is non-empty never inserts a
\* row; it is answered {ok:true} when the rate limiter admits it, whatever its
\* other fields and the requests before it, and 429 rate_limited otherwise.
C6_HoneypotOkWhenAdmitted ==
    (Served /\ HoneypotFilled) =>
        /\ rows = rows0
        /\ admitted => IsOkTrue
        /\ ~admitted => LimiterRejected

\* a padded honeypot with bad fields, after an earlier submission was stored
C6_Witness ==
    /\ nreq = 2
    /\ HoneypotFilled
    /\ req.website # Strip(req.website)
    /\ FieldsFail
    /\ admitted
    /\ IsOkTrue
    /\ Len(rows) = 1

ExpectedDetails ==
    [name |-> IF NameFails THEN "too_short" ELSE "null",
     email |-> IF EmailFails THEN "invalid" ELSE "null",
     message |-> IF MessageFails THEN "too_short_min_20" ELSE "null"]

IsValidationError ==
    /\ resp.status = 400
    /\ ~resp.ok
    /\ resp.error = "validation_error"
    /\ resp.details = ExpectedDetails

\* C7 as stated: with an empty honeypot, a short name, an email that does not
\* match or a short message always gives 400 validation_error whose details
\* mark exactly the failing fields, and no row.
C7_InvalidAlways400 ==
    (Served /\ ~HoneypotFilled /\ FieldsFail) => (IsValidationError /\ rows = rows0)

\* C7 amended: such a request never inserts a row; when the rate limiter admits
\* it, it gets 400 validation_error whose details mark exactly the failing
\* fields (null for the passing ones), and 429 rate_limited otherwise.
C7_Invalid400WhenAdmitted ==
    (Served /\ ~HoneypotFilled /\ FieldsFail) =>
        /\ rows = rows0
        /\ admitted => IsValidationError
        /\ ~admitted => LimiterRejected

\* a message of 19 characters once trimmed, 20 before, in an otherwise good form
C7_Witness ==
    /\ Served
    /\ admitted
    /\ ~HoneypotFilled
    /\ Len(req.message) = 20
    /\ Len(Strip(req.message)) = 19
    /\ IsValidationError
    /\ resp.details = [name |-> "null", email |-> "null", message |-> "too_short_min_20"]
    /\ rows = rows0

\* the windows of the contact rate limit, in seconds
WindowLen == << 60, 3600, 86400 >>

\* this request took window i's counter, for its client key, above the quota
OverQuota(i) ==
    LET c == limiter[req.client][i] IN
        /\ c.expires = now + WindowLen[i]
        /\ c.count > env.quotas[i]

\* an outcome of the request's own honeypot, validation, CAPTCHA and
\* persistence checks
OwnChecksDecide ==
    IF HoneypotFilled THEN IsOkTrue
    ELSE IF FieldsFail THEN IsValidationError
    ELSE \/ resp.status = 400 /\ resp.error \in {"captcha_required", "captcha_failed"}
         \/ resp.status = 500 /\ resp.error = "server_error"
         \/ resp.status = 201 /\ resp.ok /\ Len(rows) = Len(rows0) + 1

\* a rejection by the counters or the duplicate check of a bypassed submission
BypassRejected ==
    /\ req.host \notin {"yusufsiddiqui.dev", ""}
    /\ ~env.require_on_dev
    /\ ~HoneypotFilled
    /\ ~FieldsFail
    /\ resp.status = 429
    /\ \/ resp.error = "rate_limited" /\ resp.reason \in {"burst", "hourly", "daily"}
       \/ resp.error = "duplicate" /\ resp.reason = "recent_duplicate"
    /\ rows = rows0

NotBypassed == env.require_on_dev \/ req.host \in {"yusufsiddiqui.dev", ""}

Inserted == rows # rows0

\* a provider was consulted and verified the token
ProviderVerified ==
    /\ Len(consulted) = 1
    /\ consulted[1] \in req.tokens
    /\ verdict.k = "json"
    /\ verdict.success

\* C9 as stated: a submission that is not bypassed inserts a row only after a
\* CAPTCHA provider was consulted in that request and verified the token.
C9_RowOnlyAfterCaptcha ==
    (Served /\ NotBypassed /\ Inserted) => ProviderVerified

\* C9 amended: with at least one CAPTCHA secret configured, a submission that
\* is not bypassed inserts a row only after a CAPTCHA provider was consulted in
\* that request and verified the token.
C9_RowOnlyAfterConfiguredCaptcha ==
    (Served /\ NotBypassed /\ env.secrets # {} /\ Inserted) => ProviderVerified

\* a local host with CAPTCHA_REQUIRE_ON_DEV set: the row follows the provider's
\* success
C9_Witness ==
    /\ Served
    /\ env.require_on_dev
    /\ req.host = "127.0.0.1"
    /\ Inserted
    /\ consulted = << "recaptcha" >>
    /\ verdict.success
    /\ resp.status = 201

\* C10: at most one CAPTCHA provider is contacted per request; it is contacted
\* only for a validated submission that is not bypassed, its secret is
\* configured, hCaptcha is contacted only when the Turnstile secret is not
\* configured, and reCAPTCHA only when neither of the other two is.
C10_OneProviderByPreference ==
    Served =>
        /\ Len(consulted) <= 1
        /\ consulted # <<>> =>
              /\ NotBypassed /\ ~HoneypotFilled /\ ~FieldsFail
              /\ consulted[1] \in env.secrets
              /\ consulted[1] = "hcaptcha" => "turnstile" \notin env.secrets
              /\ consulted[1] = "recaptcha" =>
                     env.secrets \cap {"turnstile", "hcaptcha"} = {}

\* all three secrets and all three tokens: Turnstile faults, the submission is
\* rejected, and no other provider is tried
C10_Witness ==
    /\ Served
    /\ env.secrets = Providers
    /\ req.tokens = Providers
    /\ consulted = << "turnstile" >>
    /\ verdict.k = "fault"
    /\ resp.status = 400
    /\ resp.error = "captcha_failed"
    /\ rows = rows0

\* the request reached the CAPTCHA chain with a secret configured
ProviderSelected ==
    /\ Served
    /\ admitted
    /\ ~HoneypotFilled
    /\ ~FieldsFail
    /\ NotBypassed
    /\ env.secrets # {}

\* the provider the configured secrets select
Preferred ==
    IF "turnstile" \in env.secrets THEN "turnstile"
    ELSE IF "hcaptcha" \in env.secrets THEN "hcaptcha"
    ELSE "recaptcha"

CaptchaError(e) ==
    /\ resp.status = 400
    /\ ~resp.ok
    /\ resp.error = e
    /\ rows = rows0
    /\ mailed = "none"

\* C11: with a provider selected, a missing or blank token gives 400
\* captcha_required and the provider is not contacted; an unsuccessful
\* verification, a non-OK response of the provider or a fault of the call
\* gives 400 captcha_failed; no row is inserted and no email is dispatched.
C11_CaptchaRejections ==
    ProviderSelected =>
        /\ Preferred \notin req.tokens =>
              CaptchaError("captcha_required") /\ consulted = <<>>
        /\ (Preferred \in req.tokens /\ (verdict.k # "json" \/ ~verdict.success)) =>
              CaptchaError("captcha_failed") /\ consulted = << Preferred >>

\* hCaptcha answers with a non-OK status: captcha_failed, nothing stored or sent
C11_Witness ==
    /\ ProviderSelected
    /\ Preferred = "hcaptcha"
    /\ consulted = << "hcaptcha" >>
    /\ verdict.k = "http_error"
    /\ CaptchaError("captcha_failed")
    /\ rows0 # <<>>

\* reCAPTCHA was asked and reported success
RecaptchaSucceeded ==
    /\ ProviderSelected
    /\ Preferred = "recaptcha"
    /\ consulted = << "recaptcha" >>
    /\ verdict.k = "json"
    /\ verdict.success

\* C12: with reCAPTCHA selected and reporting success, a returned score below
\* 0.5 or a returned action tag other than "contact" rejects the submission
\* with 400 captcha_failed, and no row is inserted.
C12_LowScoreOrOtherActionRejected ==
    (/\ RecaptchaSucceeded
     /\ \/ verdict.score # -1 /\ verdict.score < 5
        \/ verdict.action \notin {"None", "contact"})
        => (resp.status = 400 /\ resp.error = "captcha_failed" /\ rows = rows0)

\* no check of the handler turned the submission down, the insert included
PassesAllChecks ==
    /\ Served
    /\ admitted
    /\ ~HoneypotFilled
    /\ ~FieldsFail
    /\ resp.status \notin {400, 429, 500}

\* the row a submission stores: its trimmed fields and the server time
StoredRow ==
    [name |-> Strip(req.name), email |-> Strip(req.email),
     message |-> Strip(req.message), created_at |-> now, client |-> req.client]

InBypassMode ==
    /\ Served
    /\ admitted
    /\ ~HoneypotFilled
    /\ ~FieldsFail
    /\ ~NotBypassed

\* the client's earlier submissions in bypass mode
Earlier ==
    { i \in 1..(Len(bypass_log) - 1) : bypass_log[i].client = req.client }

\* this submission's value of the burst, the hourly and the daily counter: one
\* more than the client's earlier submissions that counted in the same bucket
BurstCount ==
    1 + Cardinality({ i \in Earlier : bypass_log[i].t \div 10 = now \div 10 })
HourlyCount ==
    1 + Cardinality({ i \in Earlier : /\ bypass_log[i].t \div 3600 = now \div 3600
                                       /\ bypass_log[i].result # "burst" })
DailyCount ==
    1 + Cardinality({ i \in Earlier : /\ bypass_log[i].t \div 86400 = now \div 86400
                                       /\ bypass_log[i].result \notin {"burst", "hourly"} })

BypassError(error, reason) ==
    /\ resp.status = 429
    /\ ~resp.ok
    /\ resp.error = error
    /\ resp.reason = reason
    /\ rows = rows0

\* what the bypass block answers, given whether the message is a duplicate
BypassDecision(duplicate) ==
    IF BurstCount > env.caps[1] THEN BypassError("rate_limited", "burst")
    ELSE IF HourlyCount > env.caps[2] THEN BypassError("rate_limited", "hourly")
    ELSE IF DailyCount > env.caps[3] THEN BypassError("rate_limited", "daily")
    ELSE IF duplicate THEN BypassError("duplicate", "recent_duplicate")
    ELSE resp.status # 429

\* C14 as stated: in bypass mode the submission that takes the burst, hourly
\* or daily counter above its limit is rejected 429 rate_limited with that
\* reason; one whose message equals that of a submission of the same client
\* that passed the counters less than 600 s earlier is rejected 429 duplicate;
\* no rejected submission inserts a row.
C14_CountersAndDuplicates ==
    InBypassMode =>
        BypassDecision(\E i \in Earlier :
                          /\ bypass_log[i].message = Strip(req.message)
                          /\ bypass_log[i].result \notin {"burst", "hourly", "daily"}
                          /\ now - bypass_log[i].t < 600)

\* C14 amended: as stated, the duplicate being a message equal to that of a
\* submission of the same client that passed the counters and the duplicate
\* check less than 600 s earlier.
C14_CountersAndFreshDuplicates ==
    InBypassMode =>
        BypassDecision(\E i \in Earlier :
                          /\ bypass_log[i].message = Strip(req.message)
                          /\ bypass_log[i].result = "passed"
                          /\ now - bypass_log[i].t < 600)

\* a repeat of a stored message 300 s later, in a new burst bucket and within
\* the hourly limit: rejected as a duplicate
C14_Witness ==
    /\ InBypassMode
    /\ env.caps = << 1, 3, 10 >>
    /\ Len(bypass_log) = 2
    /\ bypass_log[1].result = "passed"
    /\ bypass_log[1].message = Strip(req.message)
    /\ now - bypass_log[1].t = 300
    /\ BypassError("duplicate", "recent_duplicate")
    /\ Len(rows) = 1

LastOutcome == outcomes[Len(outcomes)]

ApiResponse == ApiGithubRepos(username, ret)

\* C16: once the fetch has returned, the route answers 200 {ok, username,
\* repos} for data, and for an error the body {ok:false, error, message,
\* username} with the upstream status for rate_limited and upstream_error, 504
\* for timeout, 502 for request_exception, and for bad_status the upstream
\* status when it is at least 400 and 502 otherwise.
C16_StatusFollowsClassification ==
    (pc = "done" /\ ret.kind = "return") =>
        IF ret.error = PyNone
        THEN /\ ApiResponse.status = 200
             /\ ApiResponse.keys = {"ok", "username", "repos"}
             /\ ApiResponse.ok
             /\ ApiResponse.username = username
             /\ ApiResponse.repos = ret.data
        ELSE /\ ApiResponse.keys = {"ok", "error", "message", "username"}
             /\ ~ApiResponse.ok
             /\ ApiResponse.username = username
             /\ ApiResponse.error = ret.error.type
             /\ ret.error.type \in {"rate_limited", "upstream_error", "timeout",
                                    "request_exception", "bad_status"}
             /\ ret.error.type = "rate_limited" =>
                    /\ LastOutcome.status \in {403, 429}
                    /\ ApiResponse.status = LastOutcome.status
             /\ ret.error.type = "upstream_error" =>
                    /\ LastOutcome.status \in 500..599
                    /\ ApiResponse.status = LastOutcome.status
             /\ ret.error.type = "timeout" => ApiResponse.status = 504
             /\ ret.error.type = "request_exception" => ApiResponse.status = 502
             /\ ret.error.type = "bad_status" =>
                    ApiResponse.status = IF LastOutcome.status >= 400
                                         THEN LastOutcome.status ELSE 502

\* a redirect from upstream answered 502
C16_Witness ==
    /\ pc = "done"
    /\ ret.kind = "return"
    /\ ret.error # PyNone
    /\ ret.error.type = "bad_status"
    /\ LastOutcome = Http(301)
    /\ ApiResponse.status = 502

(***************************************************************************)
(* The error envelope of /api/ paths.                                      *)
(***************************************************************************)
\* C17: every error answer of POST /api/contact, whichever step produced it,
\* is a body with ok false and the keys ok, error and message.
C17_ErrorEnvelope ==
    (Served /\ resp.status >= 400) =>
        /\ ~resp.ok
        /\ {"ok", "error", "message"} \subseteq resp.keys

(***************************************************************************)
(* Termination and resources of one call.                                  *)
(***************************************************************************)
RECURSIVE SumSeq(_)
SumSeq(s) == IF s = <<>> THEN 0 ELSE Head(s) + SumSeq(Tail(s))

Running == pc \in {"request", "sleep", "topics"}

WithinCeilings ==
    /\ Len(outcomes) <= 3
    /\ Len(sleeps) <= 2
    /\ SumSeq(sleeps) <= 3
    /\ topic_reqs <= Len(Items(data))
    /\ pc = "topics" => topic_reqs <= idx - 1

\* C18: a call that has begun ends, and at every point of it it has made at
\* most 3 primary requests, at most 2 sleeps of at most 3 seconds together, and
\* at most one topic request for each record passed.
C18_TerminatesWithinCeilings ==
    /\ []WithinCeilings
    /\ Running ~> (pc = "done")

\* a call that used everything it may: 3 requests and sleeps of 1 and 2 seconds
C18_Witness ==
    /\ pc = "done"
    /\ Len(outcomes) = 3
    /\ sleeps = << 1, 2 >>

(***************************************************************************)
(* Transport failures of the primary request.                              *)
(***************************************************************************)
IsTransportFailure(o) == o.k \in {"timeout", "fault"}

BackoffOf(i) == << 1, 2 >>[i]

\* C19: the i-th primary attempt of a call, when it times out or faults, is
\* followed for i < 3 by a sleep of 1s (i = 1) or 2s (i = 2), whatever the
\* earlier attempts got, and then by another attempt; for i = 3 it ends the
\* call with (None, timeout 504) after a timeout and with (None,
\* request_exception 502) after another transport fault.
C19_TransportFailuresRetried ==
    \A i \in 1..Len(outcomes) :
        IsTransportFailure(outcomes[i]) =>
            IF i < 3
            THEN /\ pc \in {"sleep", "request"} \/ i < Len(outcomes)
                 /\ (i = Len(outcomes) /\ pc = "sleep") => Len(sleeps) = i - 1
                 /\ (i < Len(outcomes) \/ pc = "request") =>
                        /\ Len(sleeps) >= i
                        /\ sleeps[i] = BackoffOf(i)
            ELSE /\ i = Len(outcomes)
                 /\ pc = "done"
                 /\ sleeps = << 1, 2 >>
                 /\ ret = Returned(PyNone,
                                   IF outcomes[i].k = "timeout"
                                   THEN Err("timeout", 504)
                                   ELSE Err("request_exception", 502))

\* a fault, a 5xx and a final timeout
C19_Witness ==
    /\ pc = "done"
    /\ outcomes = << Fault, Http(500), Timeout >>
    /\ sleeps = << 1, 2 >>
    /\ ret = Returned(PyNone, Err("timeout", 504))

(***************************************************************************)
(* Statuses that are neither success, rate limit nor server error.         *)
(***************************************************************************)
IsOtherStatus(o) ==
    /\ o.k = "http"
    /\ o.status \notin {200, 403, 429}
    /\ o.status \notin 500..599

\* C20: a primary response whose status is none of 200, 403, 429, 5xx is the
\* last of its call, whichever attempt received it: the call has returned
\* (None, bad_status with that status), no sleep follows the response, and the
\* cache is as the call found it.
C20_OtherStatusReturnsAtOnce ==
    \A i \in 1..Len(outcomes) :
        IsOtherStatus(outcomes[i]) =>
            /\ i = Len(outcomes)
            /\ pc = "done"
            /\ ret = Returned(PyNone, Err("bad_status", outcomes[i].status))
            /\ Len(sleeps) = i - 1
            /\ cache = cache0

\* a 204 on the second attempt
C20_Witness ==
    /\ pc = "done"
    /\ outcomes = << Timeout, Http(204) >>
    /\ sleeps = << 1 >>
    /\ ret.error.type = "bad_status"
    /\ ret.error.status = 204

(***************************************************************************)
(* Topics, best effort.                                                    *)
(***************************************************************************)
\* the listing as it was decoded, before the loop touched it
Listing == Items(LastOutcome.body)

\* the records the loop has passed
Passed == IF pc = "topics" THEN idx - 1 ELSE Len(Items(data))

\* how many of the first j records of the listing needed a topics request
RECURSIVE Needing(_)
Needing(j) ==
    IF j = 0 THEN 0
    ELSE Needing(j - 1) + (IF NeedsTopicRequest(Listing[j]) THEN 1 ELSE 0)

\* a topics request that did not give a 200 with a JSON object
TopicFailed(o) ==
    \/ o.k \in {"timeout", "fault"}
    \/ o.k = "http" /\ o.status # 200
    \/ o.k = "http" /\ o.status = 200 /\ o.body.t # "obj"

\* C21: in main.py, once a listing has come with a 200, no further listing
\* request is made; each record passed was asked about at most once, and one
\* whose request failed holds topics = []; the call ends returning the listing
\* with no error, every dict record holding a topics list, and the cache
\* holding what was returned.
C21_TopicsBestEffort ==
    (pc \in {"topics", "done"} /\ ~hit /\ Len(outcomes) > 0
        /\ LastOutcome.k = "http" /\ LastOutcome.status = 200) =>
        /\ \A i \in 1..Len(outcomes) : IsHttp(outcomes[i], {200}) => i = Len(outcomes)
        /\ Len(sleeps) = Len(outcomes) - 1
        /\ Len(Items(data)) = Len(Listing)
        /\ topic_reqs = Needing(Passed)
        /\ Len(topic_log) = topic_reqs
        /\ \A j \in 1..Passed :
              /\ Items(data)[j].isdict => Items(data)[j].hasTopics
              /\ NeedsTopicRequest(Listing[j]) =>
                    (TopicFailed(topic_log[Needing(j)]) =>
                        Items(data)[j].topics = <<>>)
              /\ ~NeedsTopicRequest(Listing[j]) =>
                    Items(data)[j].topics = Listing[j].topics
        /\ pc = "done" =>
              /\ ret = Returned(data, PyNone)
              /\ cache = CacheSet(cache0, CacheKey(username), data, now, CacheTTL)

\* two records: the topics request of the first timed out, that of the second
\* was answered; the listing came on the second attempt
C21_Witness ==
    /\ pc = "done"
    /\ Len(outcomes) = 2
    /\ topic_log = << Timeout, TopicsOk >>
    /\ ret.error = PyNone
    /\ Items(ret.data)[1].topics = <<>>
    /\ Items(ret.data)[2].topics = << "t1" >>

(***************************************************************************)
(* GET /api/search.                                                        *)
(***************************************************************************)
\* a search that reached the filter: the query is not blank, the fetch gave a list
Searched ==
    /\ view.kind = "search"
    /\ Strip(view.q) # <<>>
    /\ fetched.error = PyNone

Repos == Items(fetched.data)

\* the repositories whose text contains the query; html_url is the position
Matching == { i \in 1..Len(Repos) : Contains(Text(Repos[i]), Lower(Strip(view.q))) }

Shown == { view.results[j].html_url : j \in 1..Len(view.results) }

\* (stars, last update) of a, at least that of b
NotBelow(a, b) ==
    \/ a.stars > b.stars
    \/ a.stars = b.stars /\ a.updated_at >= b.updated_at

\* C22: a search with a non-blank query answers 200 with results that are
\* matching repositories (the lowercased text of name, description, language
\* and topics, joined by spaces, contains the lowercased query), each once, in
\* descending order of (stars, last update), min(matches, 10) of them, and no
\* match left out ranks above one that is shown.
C22_SearchTopTen ==
    Searched =>
        /\ view.status = 200
        /\ Shown \subseteq Matching
        /\ Cardinality(Shown) = Len(view.results)
        /\ Len(view.results) = IF Cardinality(Matching) < 10
                               THEN Cardinality(Matching) ELSE 10
        /\ \A j \in 1..Len(view.results) :
              view.results[j] = SearchResult(Repos[view.results[j].html_url])
        /\ \A j, k \in 1..Len(view.results) :
              j < k => NotBelow(view.results[j], view.results[k])
        /\ \A i \in Matching \ Shown, j \in 1..Len(view.results) :
              NotBelow(view.results[j], SearchResult(Repos[i]))

\* eleven repositories match a padded query in capitals; ten are shown, the
\* one with fewer stars is left out although it came first in the listing
C22_Witness ==
    /\ Searched
    /\ view.q = <<" ", "B", " ">>
    /\ Cardinality(Matching) = 11
    /\ Len(view.results) = 10
    /\ 1 \notin Shown
    /\ view.results[1].stars = 2

\* s occurs in t as a run of consecutive characters
Occurs(s, t) == \E i \in 1..(Len(t) + 1), j \in 0..Len(t) : SubSeq(t, i, j) = s

Query == Lower(Strip(view.q))

\* the query occurs in one of the fields of r
InAField(r) ==
    \/ Occurs(Query, Lower(r.name))
    \/ Occurs(Query, Lower(r.description))
    \/ Occurs(Query, Lower(r.language))
    \/ \E k \in 1..Len(r.topics) : Occurs(Query, Lower(r.topics[k]))

\* the query occurs in the fields of r written one after the other with a
\* space between them
InTheText(r) ==
    Occurs(Query, Lower(r.name) \o <<" ">> \o Lower(r.description) \o <<" ">>
                    \o Lower(r.language) \o <<" ">> \o Lower(JoinSp(r.topics)))

EmptyAnswer ==
    /\ view.status = 200
    /\ view.keys = {"ok", "count", "results"}
    /\ view.count = 0
    /\ view.results = <<>>

\* C23 as stated: a search whose query occurs in no field of any repository
\* of the fetched list answers {ok: true, count: 0, results: []}.
C23_NoFieldNoResult ==
    (Searched /\ \A i \in 1..Len(Repos) : ~InAField(Repos[i])) => EmptyAnswer

\* C23, amended: a search whose query, trimmed, is not empty and occurs in the
\* space-joined text of no repository of the fetched list answers
\* {ok: true, count: 0, results: []}.
C23_NoTextNoResult ==
    (Searched /\ \A i \in 1..Len(Repos) : ~InTheText(Repos[i])) => EmptyAnswer

\* eleven repositories, none with a z
C23_Witness ==
    /\ Searched
    /\ view.q = <<"z">>
    /\ Len(Repos) = 11
    /\ EmptyAnswer

(***************************************************************************)
(* GET /feed.xml.                                                          *)
(***************************************************************************)
Fed == view.kind = "feed"

Linked == { view.results[j].link : j \in 1..Len(view.results) }

\* C24: the feed of a fetched list of n repositories is a 200 RSS document of
\* min(n, 10) items, each the item of one repository, in non-increasing order of
\* last update (pushed_at, else updated_at), no repository left out being
\* newer than one that is in; for n = 0 it has no item; on a fetch error the
\* answer is 503 plain text and no item.
C24_FeedTopTen ==
    Fed =>
        IF fetched.error # PyNone
        THEN /\ view.status = 503
             /\ view.mimetype = "text/plain"
             /\ view.results = <<>>
        ELSE /\ view.status = 200
             /\ view.mimetype = "application/rss+xml"
             /\ Len(view.results) = IF Len(Repos) < 10 THEN Len(Repos) ELSE 10
             /\ Linked \subseteq 1..Len(Repos)
             /\ Cardinality(Linked) = Len(view.results)
             /\ \A j \in 1..Len(view.results) :
                   LET r == Repos[view.results[j].link] IN
                     /\ view.results[j].title = r.name
                     /\ view.results[j].pubDate =
                            (IF r.pushed_at # 0 THEN r.pushed_at ELSE r.updated_at)
             /\ \A j, k \in 1..Len(view.results) :
                   j < k => view.results[j].pubDate >= view.results[k].pubDate
             /\ \A i \in (1..Len(Repos)) \ Linked, j \in 1..Len(view.results) :
                   view.results[j].pubDate >=
                       (IF Repos[i].pushed_at # 0 THEN Repos[i].pushed_at
                        ELSE Repos[i].updated_at)

\* eleven repositories: the first, last pushed at 2 though updated at 3, is the
\* one left out, behind ten pushed at 3
C24_Witness ==
    /\ Fed
    /\ view.status = 200
    /\ Len(Repos) = 11
    /\ Len(view.results) = 10
    /\ 1 \notin Linked
    /\ Repos[1].updated_at = 3
    /\ view.results[10].pubDate = 3

(***************************************************************************)
(* Overlapping calls for one account.                                      *)
(***************************************************************************)
LastWriter == cwrites[Len(cwrites)]

\* C25: of calls for one account that overlap, each that misses the cache runs
\* one retry loop of at most 3 requests and returns what its own requests
\* gave; each that hits makes none; each writes the cache at most once, and
\* only with the listing it returns; and the cache holds the listing of the
\* call that wrote last, or nothing when none wrote.
C25_OverlappingMisses ==
    /\ \A t \in Threads :
          fth[t].pc # "idle" =>
              /\ fth[t].n <= 3
              /\ fth[t].attempt <= 3
              /\ ~fth[t].missed => (fth[t].n = 0 /\ fth[t].pc = "done")
              /\ (fth[t].pc = "done" /\ fth[t].missed) =>
                    /\ fth[t].n >= 1
                    /\ \/ fth[t].ret = Returned(fth[t].data, PyNone)
                             /\ fth[t].data # PyNone
                       \/ fth[t].ret = Returned(PyNone, fth[t].last_error)
                             /\ fth[t].data = PyNone
              /\ Cardinality({ i \in 1..Len(cwrites) : cwrites[i] = t }) =
                    (IF fth[t].pc = "done" /\ fth[t].missed /\ fth[t].ret.error = PyNone
                     THEN 1 ELSE 0)
    /\ IF cwrites = <<>>
       THEN cache["u1"] = NoEntry
       ELSE cache["u1"].val = fth[LastWriter].ret.data

\* both calls missed and both went upstream, the first three times; they got
\* different listings, and the cache holds that of the first, which wrote last
C25_Witness ==
    /\ fth[1].pc = "done" /\ fth[2].pc = "done"
    /\ fth[1].missed /\ fth[2].missed
    /\ fth[1].n = 3 /\ fth[2].n = 1
    /\ cwrites = << 2, 1 >>
    /\ fth[1].ret.data # fth[2].ret.data
    /\ cache["u1"].val = fth[1].ret.data

(***************************************************************************)
(* Which error a call returns.                                             *)
(***************************************************************************)
\* what one attempt's outcome is called
ClassOf(o) ==
    IF o.k = "timeout" THEN Err("timeout", 504)
    ELSE IF o.k = "fault" THEN Err("request_exception", 502)
    ELSE IF o.status \in {403, 429} THEN Err("rate_limited", o.status)
    ELSE IF o.status \in 500..599 THEN Err("upstream_error", o.status)
    ELSE IF o.status = 200 THEN Err("request_exception", 502)   \* a body that does not decode
    ELSE Err("bad_status", o.status)

\* C26: a call that went upstream and returned gives, when its last attempt
\* was not a decoded 200, the classification of that last attempt as its
\* error, whatever the earlier attempts got; and when its last attempt was a
\* decoded 200, on whichever attempt, data with no error, written to the cache.
C26_LastAttemptDecides ==
    (pc = "done" /\ ~hit /\ ret.kind = "return") =>
        /\ Len(outcomes) >= 1
        /\ IF ret.error # PyNone
           THEN /\ ret = Returned(PyNone, ClassOf(LastOutcome))
                /\ ~(IsHttp(LastOutcome, {200}) /\ LastOutcome.body.t # "undecodable")
           ELSE /\ IsHttp(LastOutcome, {200})
                /\ \A i \in 1..(Len(outcomes) - 1) :
                      ClassOf(outcomes[i]).type \in
                          {"upstream_error", "timeout", "request_exception"}
                /\ cache = CacheSet(cache0, CacheKey(username), ret.data, now, CacheTTL)

\* a timeout, then a 503, then a 404: bad_status 404
C26_Witness ==
    /\ pc = "done"
    /\ outcomes = << Timeout, Http(503), Http(404) >>
    /\ ret = Returned(PyNone, Err("bad_status", 404))

(***************************************************************************)
(* Age of what the cache serves.                                           *)
(***************************************************************************)
\* C27: a call answered from the cache is answered with a list written less
\* than 300 seconds before it began; a call that begins when every write for
\* its account is 300 seconds old or older misses and goes upstream, whether
\* or not the cache was hit in between.
C27_NeverServedStale ==
    pc # "idle" =>
        /\ hit => \E p \in oks0 : started < p.at + 300 /\ ret = Returned(p.data, PyNone)
        /\ (\A p \in oks0 : started >= p.at + 300) =>
              /\ ~hit
              /\ pc = "done" => Len(outcomes) >= 1

\* written once, hit 299 seconds later, missed 1 second after that
C27_Witness ==
    /\ calls = 3
    /\ pc = "request"
    /\ ~hit
    /\ prev_end = "ok"
    /\ Cardinality(oks0) = 1
    /\ \A p \in oks0 : started = p.at + 300

(***************************************************************************)
(* The burst limit of bypass mode.                                         *)
(***************************************************************************)
PassedBurst(i) == bypass_log[i].result # "burst"

\* C28: of one client's submissions in bypass mode, those that pass the burst
\* check within any span of window_s seconds number at most the burst limit.
C28_BurstPerWindow ==
    \A i \in 1..Len(bypass_log) :
        PassedBurst(i) =>
            Cardinality({ j \in i..Len(bypass_log) :
                            /\ bypass_log[j].client = bypass_log[i].client
                            /\ PassedBurst(j)
                            /\ bypass_log[j].t - bypass_log[i].t < window_s })
                <= env.caps[1]

(***************************************************************************)
(* The order of api_contact's checks.                                      *)
(***************************************************************************)
InvalidFields(r) == ~(ValidName(r) /\ ValidEmail(r) /\ ValidMessage(r))

\* C29: the honeypot is looked at before the fields and the fields before the
\* bypass counters and the CAPTCHA: an admitted submission with a filled
\* honeypot is answered 200 even when its fields are invalid, one with an empty
\* honeypot and invalid fields is answered 400, and both leave the bypass
\* counters and fingerprints as they were and contact no CAPTCHA provider.
C29_ChecksInOrder ==
    [][ (nreq' = nreq + 1 /\ admitted') =>
          /\ Honeypot(req') =>
                /\ resp'.status = 200
                /\ bypass' = bypass
                /\ consulted' = <<>>
          /\ (~Honeypot(req') /\ InvalidFields(req')) =>
                /\ resp'.status = 400
                /\ resp'.error = "validation_error"
                /\ bypass' = bypass
                /\ consulted' = <<>> ]_vars

\* a bot's submission with invalid fields, answered 200 on a server whose
\* bypass counters an earlier submission has set
C29_Witness ==
    /\ nreq > 1
    /\ admitted
    /\ Honeypot(req)
    /\ InvalidFields(req)
    /\ resp.status = 200
    /\ DOMAIN bypass # {}
    /\ consulted = <<>>

(***************************************************************************)
(* Bypass-mode submissions that overlap.                                   *)
(***************************************************************************)
\* the submissions that got past a counter's check
PassedStage(s) == { t \in Threads : cth[t].pc # "idle" /\ s \in cth[t].passed }

\* the calls of _inc_and_get on a counter that have returned
Incremented(s) ==
    { t \in Threads :
        /\ cth[t].pc # "idle"
        /\ \/ s \in cth[t].passed
           \/ cth[t].pc = "done" /\ cth[t].stage = s
                                 /\ cth[t].resp.reason = StageReason(s) }

\* the thread is inside _inc_and_get on the counter, between get and set
Incrementing(s) == { t \in Threads : cth[t].pc = "set" /\ cth[t].stage = s }

\* C30: of the overlapping submissions of one client in one bucket, those that
\* pass the burst, the hourly and the daily check number at most the limit of
\* each, and once no call of _inc_and_get is under way a counter holds the
\* number of calls made on it.
C30_NoLostUpdate ==
    \A s \in {"burst", "hour", "day"} :
        /\ Cardinality(PassedStage(s)) <= StageCap(s, env.caps)
        /\ Incrementing(s) = {} =>
              BypassGet(bypass, StageKey(s, OverlapRequest, now), now)
                  = Cardinality(Incremented(s))

(***************************************************************************)
(* The count of a search.                                                  *)
(***************************************************************************)
\* C31: in the 200 answer to a search with a non-blank query, count is the
\* number of repositories that match, before the results are cut to ten: the
\* results number min(count, 10), and count is above their number whenever
\* more than ten repositories match.
C31_CountBeforeTruncation ==
    (Searched /\ view.status = 200) =>
        /\ "count" \in view.keys
        /\ view.count = Cardinality(Matching)
        /\ Len(view.results) = IF view.count < 10 THEN view.count ELSE 10
        /\ Cardinality(Matching) > 10 => view.count > Len(view.results)

\* eleven repositories match: count is 11 and ten results are given
C31_Witness ==
    /\ Searched
    /\ view.status = 200
    /\ Cardinality(Matching) = MaxLongRepos
    /\ view.count = MaxLongRepos
    /\ Len(view.results) = 10

====
